---- MODULE Spec2Model ----
(***************************************************************************)
(* PrintFlow Desktop Agent (src/printflow_agent.py): the /print_raw job    *)
(* pipeline (validation, base64 decoding, cut decision, routing, ESC/POS   *)
(* raster conversion, platform spooling), the configuration object and the *)
(* TLS certificate bootstrap, as a state machine.                          *)
(*                                                                         *)
(* Python strings are sequences of one-character strings, bytes objects    *)
(* are sequences of integers 0..255.                                       *)
(***************************************************************************)
EXTENDS Integers, Sequences, FiniteSets, TLC

VARIABLES
    SYSTEM,      \* platform.system(), fixed at import
    win32print,  \* TRUE iff the win32print module was imported
    Image,       \* TRUE iff Pillow was imported
    settings,    \* Configuration._settings of the global config
    configFile,  \* content of CONFIG_PATH: <<>> when absent, else <<document>>
    certFile,    \* content of CERT_PATH: 0 = absent, n = written by generation n
    keyFile,     \* content of KEY_PATH:  0 = absent, n = written by generation n
    generations, \* number of key pairs generated so far
    lastGenerate,\* what the last CertificateManager.generate call did
    phase,       \* run_server: "stopped", "listening" or "failed"
    request,     \* the /print_raw request in flight: <<>> when idle, else <<req>>
    responses,   \* the responses produced for the request in flight
    osAnswers,   \* what the OS answered while that request was handled
    osLog,       \* the OS interactions made while handling the request in flight
    rasterImg,   \* the image handed to _image_to_raster
    rasterOut,   \* what _image_to_raster made of it
    netEnv,      \* what the three address discovery sub-methods report
    addresses,   \* <<>> or <<the set get_local_addresses returned>>
    sanOut,      \* <<>> or <<what building the certificate's alt names gave>>
    workers,     \* the request each worker thread handles and how far it is
    osPrinters   \* what the OS answers to a printer enumeration made now

vars == <<SYSTEM, win32print, Image, settings, configFile, certFile, keyFile,
          generations, lastGenerate, phase, request, responses, osAnswers, osLog,
          rasterImg, rasterOut, netEnv, addresses, sanOut, workers, osPrinters>>

platformVars == <<SYSTEM, win32print, Image>>
configVars == <<settings, configFile>>
certVars == <<certFile, keyFile, generations, lastGenerate>>
jobVars == <<request, responses, osAnswers, osLog>>
rasterVars == <<rasterImg, rasterOut>>
netVars == <<netEnv, addresses, sanOut>>
workerVars == <<workers, osPrinters>>

(***************************************************************************)
(* Values                                                                  *)
(***************************************************************************)

\* Python's None: a value that is no string (no sequence of one-character strings).
None == <<"None">>

\* The ESC/POS constants.
ESCPOS_INIT == <<27, 64>>
ESCPOS_CUT == <<29, 86, 0>>
ESCPOS_RASTER_START == <<29, 118, 48, 0>>

\* The string literals of handle_print.
S_text == <<"t", "e", "x", "t">>
S_image == <<"i", "m", "a", "g", "e">>
S_image_cut == <<"i", "m", "a", "g", "e", "_", "c", "u", "t">>
S_pdf == <<"p", "d", "f">>
S_cut == <<"_", "c", "u", "t">>

\* str.endswith
EndsWith(s, suffix) ==
    /\ Len(s) >= Len(suffix)
    /\ SubSeq(s, Len(s) - Len(suffix) + 1, Len(s)) = suffix

\* Truthy as an identity test would have it (printer_name is not None): '' passes.
TruthyNotNone(v) == v # None

\* Python truthiness of a str-or-None value: None and '' are falsy.
Truthy(v) == v # None /\ v # <<>>

(***************************************************************************)
(* base64.b64decode(s) with validate=False (binascii.a2b_base64):          *)
(* characters outside the alphabet are discarded, '=' completes a quad     *)
(* only at position 2 or 3, decoding stops at a completed padding, and a   *)
(* quad left open at the end raises binascii.Error.                        *)
(***************************************************************************)

B64Alphabet ==
    <<"A", "B", "C", "D", "E", "F", "G", "H", "I", "J", "K", "L", "M",
      "N", "O", "P", "Q", "R", "S", "T", "U", "V", "W", "X", "Y", "Z",
      "a", "b", "c", "d", "e", "f", "g", "h", "i", "j", "k", "l", "m",
      "n", "o", "p", "q", "r", "s", "t", "u", "v", "w", "x", "y", "z",
      "0", "1", "2", "3", "4", "5", "6", "7", "8", "9", "+", "/">>

\* table_a2b_base64: the sextet of a character, 64 for a character outside the alphabet.
B64Value(ch) ==
    IF \E i \in 1..64 : B64Alphabet[i] = ch
    THEN (CHOOSE i \in 1..64 : B64Alphabet[i] = ch) - 1
    ELSE 64

\* The decoder's loop from character i on: quad_pos, leftchar and pads are its
\* registers and out the bytes produced so far.
RECURSIVE B64Loop(_, _, _, _, _, _)
B64Loop(s, i, quad_pos, leftchar, pads, out) ==
    IF i > Len(s)
    THEN IF quad_pos = 0
         THEN [ok |-> TRUE, bytes |-> out, error |-> ""]
         ELSE IF quad_pos = 1
              THEN [ok |-> FALSE, bytes |-> <<>>,
                    error |-> "Invalid base64-encoded string"]
              ELSE [ok |-> FALSE, bytes |-> <<>>, error |-> "Incorrect padding"]
    ELSE IF s[i] = "="
         THEN IF quad_pos >= 2 /\ quad_pos + pads + 1 >= 4
              THEN [ok |-> TRUE, bytes |-> out, error |-> ""]
              ELSE B64Loop(s, i + 1, quad_pos, leftchar,
                           IF quad_pos >= 2 THEN pads + 1 ELSE pads, out)
         ELSE LET v == B64Value(s[i]) IN
              IF v >= 64
              THEN B64Loop(s, i + 1, quad_pos, leftchar, pads, out)
              ELSE CASE quad_pos = 0 ->
                          B64Loop(s, i + 1, 1, v, 0, out)
                     [] quad_pos = 1 ->
                          B64Loop(s, i + 1, 2, v % 16, 0,
                                  Append(out, leftchar * 4 + v \div 16))
                     [] quad_pos = 2 ->
                          B64Loop(s, i + 1, 3, v % 4, 0,
                                  Append(out, leftchar * 16 + v \div 4))
                     [] quad_pos = 3 ->
                          B64Loop(s, i + 1, 0, 0, 0,
                                  Append(out, leftchar * 64 + v))

b64decode(s) == B64Loop(s, 1, 0, 0, 0, <<>>)

(***************************************************************************)
(* IEEE-754 binary64 arithmetic of print_image's scaling:                  *)
(*     ratio = max_width / img.width;  new_height = int(img.height * ratio)*)
(* A positive double is [bits, scale]: the integer whose binary digits are *)
(* bits (least significant first) times 2^-scale.  Both operations round   *)
(* to 53 significant bits, ties to even, as the hardware does.  Integers   *)
(* wider than 32 bits are held as digits or as limbs of LimbBits bits,     *)
(* which bounds the operands: widths below 2^18, heights below 2^17.       *)
(***************************************************************************)

MantissaBits == 53
LimbBits == 13
Base == 2 ^ LimbBits
DivLimbCount == 6

\* The next n limbs (most significant first) of the binary expansion of r/w,
\* 0 <= r < w, and the remainder left after them.
RECURSIVE DivLimbs(_, _, _, _)
DivLimbs(r, w, n, acc) ==
    IF n = 0
    THEN [limbs |-> acc, rem |-> r]
    ELSE DivLimbs((r * Base) % w, w, n - 1, Append(acc, (r * Base) \div w))

\* Digit i (from 1, most significant first) of limbs held most significant first.
DigitMsb(limbs, i) ==
    (limbs[((i - 1) \div LimbBits) + 1]
        \div (2 ^ (LimbBits - 1 - ((i - 1) % LimbBits)))) % 2

\* Digit i (from 1, least significant first) of limbs held least significant first.
DigitLsb(limbs, i) ==
    (limbs[((i - 1) \div LimbBits) + 1] \div (2 ^ ((i - 1) % LimbBits))) % 2

\* The sequence f as a tuple of its values.
AsTuple(f) == SubSeq(f, 1, Len(f))

\* bits + 1, least significant digit first.
Increment(bits) ==
    IF \A i \in 1..Len(bits) : bits[i] = 1
    THEN AsTuple([i \in 1..(Len(bits) + 1) |-> IF i = Len(bits) + 1 THEN 1 ELSE 0])
    ELSE LET j == CHOOSE k \in 1..Len(bits) :
                     bits[k] = 0 /\ \A i \in 1..(k - 1) : bits[i] = 1
         IN AsTuple([i \in 1..Len(bits) |->
                       IF i < j THEN 0 ELSE IF i = j THEN 1 ELSE bits[i]])

\* Round an integer (digits least significant first) to MantissaBits significant
\* digits, ties to even: the digits kept and the number of digits dropped.
RoundNearestEven(bits, stickyBelow) ==
    LET L == Len(bits)
        d == L - MantissaBits
    IN IF d <= 0
       THEN [bits |-> bits, dropped |-> 0]
       ELSE LET guard == bits[d]
                sticky == stickyBelow \/ (\E i \in 1..(d - 1) : bits[i] = 1)
                kept == SubSeq(bits, d + 1, L)
                up == guard = 1 /\ (sticky \/ kept[1] = 1)
            IN [bits |-> IF up THEN Increment(kept) ELSE kept, dropped |-> d]

\* a / b for integers 0 < a < b: the correctly rounded quotient.
FloatDiv(a, b) ==
    LET q == DivLimbs(a, b, DivLimbCount, <<>>)
        total == DivLimbCount * LimbBits
        first == CHOOSE i \in 1..total :
                    DigitMsb(q.limbs, i) = 1 /\ \A j \in 1..(i - 1) : DigitMsb(q.limbs, j) = 0
        last == first + MantissaBits         \* the guard digit
        sig == AsTuple([k \in 1..(MantissaBits + 1) |-> DigitMsb(q.limbs, last + 1 - k)])
        sticky == q.rem # 0 \/ \E i \in (last + 1)..total : DigitMsb(q.limbs, i) = 1
        r == RoundNearestEven(sig, sticky)
    IN [bits |-> r.bits, scale |-> first - 1 + MantissaBits]

\* Digit i of digits held least significant first, 0 beyond the last.
DigitAt(bits, i) == IF i <= Len(bits) THEN bits[i] ELSE 0

\* The limb made of the LimbBits digits bits[from], bits[from + 1], ...
LimbOf(bits, from) ==
    (((DigitAt(bits, from) + 2 * DigitAt(bits, from + 1))
      + (4 * DigitAt(bits, from + 2) + 8 * DigitAt(bits, from + 3)))
     + ((16 * DigitAt(bits, from + 4) + 32 * DigitAt(bits, from + 5))
        + (64 * DigitAt(bits, from + 6) + 128 * DigitAt(bits, from + 7))))
    + (((256 * DigitAt(bits, from + 8) + 512 * DigitAt(bits, from + 9))
        + (1024 * DigitAt(bits, from + 10) + 2048 * DigitAt(bits, from + 11)))
       + 4096 * DigitAt(bits, from + 12))

\* limbs * h with the carry propagated, least significant limb first.
RECURSIVE MulLimbs(_, _, _, _)
MulLimbs(limbs, h, carry, acc) ==
    IF limbs = <<>>
    THEN IF carry = 0 THEN acc ELSE MulLimbs(<<0>>, h, carry, acc)
    ELSE LET t == limbs[1] * h + carry
         IN MulLimbs(Tail(limbs), h, t \div Base, Append(acc, t % Base))

\* bits * h for a natural number h, digits least significant first.
MulDigits(bits, h) ==
    LET count == (Len(bits) + LimbBits - 1) \div LimbBits
        limbs == AsTuple([j \in 1..count |-> LimbOf(bits, LimbBits * (j - 1) + 1)])
        prod == MulLimbs(limbs, h, 0, <<>>)
        total == Len(prod) * LimbBits
        ones == {i \in 1..total : DigitLsb(prod, i) = 1}
        top == IF ones = {} THEN 0 ELSE CHOOSE i \in ones : \A j \in ones : j <= i
    IN AsTuple([i \in 1..top |-> DigitLsb(prod, i)])

\* float(h) * x, correctly rounded (h a natural number).
FloatMul(h, x) ==
    IF x.bits = <<>> \/ h = 0
    THEN [bits |-> <<>>, scale |-> 0]
    ELSE LET r == RoundNearestEven(MulDigits(x.bits, h), FALSE)
         IN [bits |-> r.bits, scale |-> x.scale - r.dropped]

\* The natural number with the digits bits[from..], least significant first
\* (two limbs: below 2^26).
DigitsToNat(bits, from) ==
    LimbOf(bits, from) + Base * LimbOf(bits, from + LimbBits)

\* int(x) of a non-negative double: truncation.
FloatToInt(x) ==
    IF x.scale >= Len(x.bits) THEN 0
    ELSE DigitsToNat(x.bits, x.scale + 1)

(***************************************************************************)
(* Images.  A PIL image is [width, height, srcWidth, tile]: pixel (x, y)   *)
(* with x < srcWidth has the value tile[(y * srcWidth + x) mod Len(tile)], *)
(* the tile repeated in row-major order; a pixel with x >= srcWidth is a   *)
(* column added by padding.  A tile as long as the image is its bitmap.    *)
(***************************************************************************)

BLACK == 0
WHITE == 255

NewImage(w, h, tile) ==
    [width |-> w, height |-> h, srcWidth |-> w, tile |-> tile]

\* pixels[x, y] of img.load()
Pixel(img, x, y) ==
    IF x < img.srcWidth
    THEN img.tile[((y * img.srcWidth + x) % Len(img.tile)) + 1]
    ELSE WHITE

\* img.point(lambda x: 0 if x < 128 else 255, '1') on a mode-'L' image
Threshold(img) ==
    [img EXCEPT !.tile = [i \in 1..Len(img.tile) |->
                             IF img.tile[i] < 128 THEN BLACK ELSE WHITE]]

\* Image.new('1', (padded_width, height), 1) followed by paste(img, (0, 0))
PadImage(img, padded_width) ==
    [img EXCEPT !.width = padded_width]

\* PackByte filling each byte from its least significant bit.
RECURSIVE PackByteLsb(_, _, _, _, _)
PackByteLsb(img, width, y, x, bit_pos) ==
    IF bit_pos < 0 THEN 0
    ELSE (IF x < width /\ Pixel(img, x, y) = 0 THEN 2 ^ (7 - bit_pos) ELSE 0)
         + PackByteLsb(img, width, y, x + 1, bit_pos - 1)

\* The inner loop of _image_to_raster from column x of row y on, until bit_pos
\* falls below 0: the bits (1 << bit_pos) it ors into row_byte.
RECURSIVE PackByte(_, _, _, _, _)
PackByte(img, width, y, x, bit_pos) ==
    IF bit_pos < 0 THEN 0
    ELSE (IF x < width /\ Pixel(img, x, y) = 0 THEN 2 ^ bit_pos ELSE 0)
         + PackByte(img, width, y, x + 1, bit_pos - 1)

\* _image_to_raster keeping the low 16 bits of the height: the header's height
\* bytes wrap around and only that many rows are encoded.
image_to_raster_truncated(src) ==
    LET width == src.width
        height == src.height % 65536
        padded_width == ((width + 7) \div 8) * 8
        img == IF padded_width # width THEN PadImage(src, padded_width) ELSE src
        bytes_per_row == padded_width \div 8
        header == <<bytes_per_row % 256, (bytes_per_row \div 256) % 256,
                    height % 256, height \div 256>>
        raster_body ==
            [i \in 1..(height * bytes_per_row) |->
                PackByte(img, width, (i - 1) \div bytes_per_row,
                         8 * ((i - 1) % bytes_per_row), 7)]
    IN [ok |-> TRUE, bytes |-> ESCPOS_RASTER_START \o header \o raster_body,
        error |-> ""]

\* image_to_raster with the two height bytes of the header in the other order.
image_to_raster_swapped(src) ==
    LET width == src.width
        height == src.height
        padded_width == ((width + 7) \div 8) * 8
        img == IF padded_width # width THEN PadImage(src, padded_width) ELSE src
        bytes_per_row == padded_width \div 8
        header == <<bytes_per_row % 256, bytes_per_row \div 256,
                    height \div 256, height % 256>>
        raster_body ==
            [i \in 1..(height * bytes_per_row) |->
                PackByte(img, width, (i - 1) \div bytes_per_row,
                         8 * ((i - 1) % bytes_per_row), 7)]
    IN IF \E k \in 1..4 : header[k] > 255
       THEN [ok |-> FALSE, bytes |-> <<>>,
             error |-> "bytes must be in range(0, 256)"]
       ELSE [ok |-> TRUE, bytes |-> ESCPOS_RASTER_START \o header \o raster_body,
             error |-> ""]

\* PrinterManager._image_to_raster(img): [ok, bytes, error]; bytes([...]) raises
\* ValueError when a header value is not in range(0, 256).
image_to_raster(src) ==
    LET width == src.width
        height == src.height
        padded_width == ((width + 7) \div 8) * 8
        img == IF padded_width # width THEN PadImage(src, padded_width) ELSE src
        bytes_per_row == padded_width \div 8
        width_low == bytes_per_row % 256
        width_high == bytes_per_row \div 256
        height_low == height % 256
        height_high == height \div 256
        header == <<width_low, width_high, height_low, height_high>>
        raster_body ==
            [i \in 1..(height * bytes_per_row) |->
                PackByte(img, width, (i - 1) \div bytes_per_row,
                         8 * ((i - 1) % bytes_per_row), 7)]
    IN IF \E k \in 1..4 : header[k] > 255
       THEN [ok |-> FALSE, bytes |-> <<>>,
             error |-> "bytes must be in range(0, 256)"]
       ELSE [ok |-> TRUE, bytes |-> ESCPOS_RASTER_START \o header \o raster_body,
             error |-> ""]


(***************************************************************************)
(* OS interactions.  Every call a handler makes to the operating system is *)
(* logged as [op, target, data, ok]: the call, the printer or file it      *)
(* names, the bytes it carries and whether it returned normally.  What the *)
(* OS does is an input: the set of native spooler calls that raise, the    *)
(* outcome of the lp submission, the outcome of the shell print command.   *)
(***************************************************************************)

OsCall(op, target, data, ok) ==
    [op |-> op, target |-> target, data |-> data, ok |-> ok]

TEMP_RAW == <<"t", "m", "p", ".", "r", "a", "w">>
TEMP_PDF == <<"t", "m", "p", ".", "p", "d", "f">>

\* The result of a call that may raise: ok, the message of the exception that
\* propagates, and the OS calls made.
Returned(log) == [ok |-> TRUE, error |-> "", log |-> log]
Raised(error, log) == [ok |-> FALSE, error |-> error, log |-> log]

WinCalls == {"OpenPrinter", "StartDocPrinter", "StartPagePrinter", "WritePrinter",
             "EndPagePrinter", "EndDocPrinter", "ClosePrinter"}

\* print_raw_windows without the finally clause around the document: the handle
\* is closed only when every call before it returned.
print_raw_windows_leak(printer_name, data0, with_cut, fails) ==
    LET data == IF with_cut THEN data0 \o ESCPOS_CUT ELSE data0
        call(op) == OsCall(op, printer_name,
                           IF op = "WritePrinter" THEN data ELSE <<>>, op \notin fails)
        page == IF "StartPagePrinter" \in fails
                THEN Raised("StartPagePrinter", <<call("StartPagePrinter")>>)
                ELSE IF "WritePrinter" \in fails
                THEN Raised("WritePrinter",
                            <<call("StartPagePrinter"), call("WritePrinter")>>)
                ELSE IF "EndPagePrinter" \in fails
                THEN Raised("EndPagePrinter",
                            <<call("StartPagePrinter"), call("WritePrinter"),
                              call("EndPagePrinter")>>)
                ELSE Returned(<<call("StartPagePrinter"), call("WritePrinter"),
                                call("EndPagePrinter")>>)
        doc == IF "StartDocPrinter" \in fails
               THEN Raised("StartDocPrinter", <<call("StartDocPrinter")>>)
               ELSE LET log == <<call("StartDocPrinter")>> \o page.log
                                   \o <<call("EndDocPrinter")>>
                    IN IF "EndDocPrinter" \in fails THEN Raised("EndDocPrinter", log)
                       ELSE IF ~page.ok THEN Raised(page.error, log)
                       ELSE Returned(log)
    IN IF "OpenPrinter" \in fails
       THEN Raised("OpenPrinter", <<call("OpenPrinter")>>)
       ELSE IF ~doc.ok
       THEN Raised(doc.error, <<call("OpenPrinter")>> \o doc.log)
       ELSE IF "ClosePrinter" \in fails
       THEN Raised("ClosePrinter",
                   <<call("OpenPrinter")>> \o doc.log \o <<call("ClosePrinter")>>)
       ELSE Returned(<<call("OpenPrinter")>> \o doc.log \o <<call("ClosePrinter")>>)

\* PrinterManager._print_raw_windows; fails is the set of win32print calls that raise.
\* An exception raised in a finally block replaces the one in flight.
print_raw_windows(printer_name, data0, with_cut, fails) ==
    LET data == IF with_cut THEN data0 \o ESCPOS_CUT ELSE data0
        call(op) == OsCall(op, printer_name,
                           IF op = "WritePrinter" THEN data ELSE <<>>, op \notin fails)
        \* StartPagePrinter, WritePrinter, EndPagePrinter, up to the first that raises
        page == IF "StartPagePrinter" \in fails
                THEN Raised("StartPagePrinter", <<call("StartPagePrinter")>>)
                ELSE IF "WritePrinter" \in fails
                THEN Raised("WritePrinter",
                            <<call("StartPagePrinter"), call("WritePrinter")>>)
                ELSE IF "EndPagePrinter" \in fails
                THEN Raised("EndPagePrinter",
                            <<call("StartPagePrinter"), call("WritePrinter"),
                              call("EndPagePrinter")>>)
                ELSE Returned(<<call("StartPagePrinter"), call("WritePrinter"),
                                call("EndPagePrinter")>>)
        \* try: page finally: EndDocPrinter
        doc == IF "StartDocPrinter" \in fails
               THEN Raised("StartDocPrinter", <<call("StartDocPrinter")>>)
               ELSE LET log == <<call("StartDocPrinter")>> \o page.log
                                   \o <<call("EndDocPrinter")>>
                    IN IF "EndDocPrinter" \in fails THEN Raised("EndDocPrinter", log)
                       ELSE IF ~page.ok THEN Raised(page.error, log)
                       ELSE Returned(log)
        \* try: doc finally: ClosePrinter
        job == IF "OpenPrinter" \in fails
               THEN Raised("OpenPrinter", <<call("OpenPrinter")>>)
               ELSE LET log == <<call("OpenPrinter")>> \o doc.log
                                   \o <<call("ClosePrinter")>>
                    IN IF "ClosePrinter" \in fails THEN Raised("ClosePrinter", log)
                       ELSE IF ~doc.ok THEN Raised(doc.error, log)
                       ELSE Returned(log)
    IN job

CupsOutcomes == {"ok", "nonzero_stderr", "nonzero_silent", "tempfile_raises",
                 "write_raises", "run_raises", "unlink_raises"}

\* print_raw_cups appending the cut command whatever with_cut says.
print_raw_cups_cut(printer_name, data0, with_cut, outcome) ==
    LET data == data0 \o ESCPOS_CUT
        create(ok) == OsCall("NamedTemporaryFile", TEMP_RAW, <<>>, ok)
        write(ok) == OsCall("write", TEMP_RAW, data, ok)
        lp(ok) == OsCall("lp", printer_name, data, ok)
        unlink(ok) == OsCall("unlink", TEMP_RAW, <<>>, ok)
    IN CASE outcome = "tempfile_raises" ->
              Raised("NamedTemporaryFile", <<create(FALSE)>>)
         [] outcome = "write_raises" ->
              Raised("write", <<create(TRUE), write(FALSE)>>)
         [] outcome = "run_raises" ->
              Raised("lp", <<create(TRUE), write(TRUE), lp(FALSE)>>)
         [] outcome = "unlink_raises" ->
              Raised("unlink", <<create(TRUE), write(TRUE), lp(TRUE), unlink(FALSE)>>)
         [] outcome = "nonzero_stderr" ->
              Raised("lp: stderr",
                     <<create(TRUE), write(TRUE), lp(TRUE), unlink(TRUE)>>)
         [] outcome = "nonzero_silent" ->
              Raised("lp command failed",
                     <<create(TRUE), write(TRUE), lp(TRUE), unlink(TRUE)>>)
         [] OTHER ->
              Returned(<<create(TRUE), write(TRUE), lp(TRUE), unlink(TRUE)>>)

\* PrinterManager._print_raw_cups; outcome is what the OS does with the job.
print_raw_cups(printer_name, data0, with_cut, outcome) ==
    LET data == IF with_cut THEN data0 \o ESCPOS_CUT ELSE data0
        create(ok) == OsCall("NamedTemporaryFile", TEMP_RAW, <<>>, ok)
        write(ok) == OsCall("write", TEMP_RAW, data, ok)
        lp(ok) == OsCall("lp", printer_name, data, ok)
        unlink(ok) == OsCall("unlink", TEMP_RAW, <<>>, ok)
    IN CASE outcome = "tempfile_raises" ->
              Raised("NamedTemporaryFile", <<create(FALSE)>>)
         [] outcome = "write_raises" ->
              Raised("write", <<create(TRUE), write(FALSE)>>)
         [] outcome = "run_raises" ->
              Raised("lp", <<create(TRUE), write(TRUE), lp(FALSE)>>)
         [] outcome = "unlink_raises" ->
              Raised("unlink", <<create(TRUE), write(TRUE), lp(TRUE), unlink(FALSE)>>)
         [] outcome = "nonzero_stderr" ->
              Raised("lp: stderr",
                     <<create(TRUE), write(TRUE), lp(TRUE), unlink(TRUE)>>)
         [] outcome = "nonzero_silent" ->
              Raised("lp command failed",
                     <<create(TRUE), write(TRUE), lp(TRUE), unlink(TRUE)>>)
         [] OTHER ->
              Returned(<<create(TRUE), write(TRUE), lp(TRUE), unlink(TRUE)>>)

\* print_raw making a second attempt when the first one raised.
print_raw_retry(plat, printer_name, data, with_cut, os) ==
    LET attempt == IF plat.SYSTEM = "Windows" /\ plat.win32print
                   THEN print_raw_windows(printer_name, data, with_cut, os.winFails)
                   ELSE IF plat.SYSTEM \in {"Linux", "Darwin"}
                   THEN print_raw_cups(printer_name, data, with_cut, os.cups)
                   ELSE Raised("Unsupported platform", <<>>)
    IN IF attempt.ok THEN attempt
       ELSE [attempt EXCEPT !.log = attempt.log \o attempt.log]

\* PrinterManager.print_raw; plat is [SYSTEM, win32print, Image], os the OS's answers.
print_raw(plat, printer_name, data, with_cut, os) ==
    IF plat.SYSTEM = "Windows" /\ plat.win32print
    THEN print_raw_windows(printer_name, data, with_cut, os.winFails)
    ELSE IF plat.SYSTEM \in {"Linux", "Darwin"}
    THEN print_raw_cups(printer_name, data, with_cut, os.cups)
    ELSE Raised("Unsupported platform", <<>>)

max_width == 576

\* img.resize((max_width, new_height), Image.LANCZOS): Pillow refuses a size below
\* 1; the content of the resampled image is the library's, here the tile os.resampled.
Resize(w, new_height, os) ==
    IF w < 1 \/ new_height < 1
    THEN [ok |-> FALSE, error |-> "height and width must be > 0"]
    ELSE [ok |-> TRUE, error |-> "", img |-> NewImage(w, new_height, os.resampled)]

\* The size print_image encodes an image of size (w, h) at.
ScaledHeight(w, h) == FloatToInt(FloatMul(h, FloatDiv(max_width, w)))

\* print_image passing its cut flag on to print_raw as well, which then appends
\* the cut command a second time.
print_image_cut_twice(plat, printer_name, image_data, with_cut, os) ==
    IF ~plat.Image THEN Raised("Pillow library not available", <<>>)
    ELSE IF ~os.imageValid THEN Raised("cannot identify image file", <<>>)
    ELSE LET mono == Threshold(os.image)
             resized == IF mono.width > max_width
                        THEN Resize(max_width, ScaledHeight(mono.width, mono.height), os)
                        ELSE [ok |-> TRUE, error |-> "", img |-> mono]
         IN IF ~resized.ok THEN Raised(resized.error, <<>>)
            ELSE LET raster == image_to_raster(resized.img) IN
                 IF ~raster.ok THEN Raised(raster.error, <<>>)
                 ELSE LET output0 == ESCPOS_INIT \o raster.bytes
                          output == IF with_cut THEN output0 \o ESCPOS_CUT ELSE output0
                      IN print_raw(plat, printer_name, output, with_cut, os)

\* PrinterManager.print_image(printer_name, image_data, with_cut); os.image is what
\* Image.open makes of image_data, a mode-'L' image, unless os.imageValid is FALSE
\* and it raises.
print_image(plat, printer_name, image_data, with_cut, os) ==
    IF ~plat.Image THEN Raised("Pillow library not available", <<>>)
    ELSE IF ~os.imageValid THEN Raised("cannot identify image file", <<>>)
    ELSE LET mono == Threshold(os.image)
             resized == IF mono.width > max_width
                        THEN Resize(max_width, ScaledHeight(mono.width, mono.height), os)
                        ELSE [ok |-> TRUE, error |-> "", img |-> mono]
         IN IF ~resized.ok THEN Raised(resized.error, <<>>)
            ELSE LET raster == image_to_raster(resized.img) IN
                 IF ~raster.ok THEN Raised(raster.error, <<>>)
                 ELSE LET output0 == ESCPOS_INIT \o raster.bytes
                          output == IF with_cut THEN output0 \o ESCPOS_CUT ELSE output0
                      IN print_raw(plat, printer_name, output, FALSE, os)


(***************************************************************************)
(* handle_print: the /print_raw handler.                                   *)
(***************************************************************************)

\* A key the JSON object does not have.
Absent == <<"absent">>

\* payload.get(key, default)
Get(payload, key, default) ==
    IF payload[key] = Absent THEN default ELSE payload[key]

Response(status, keys, success, error, message) ==
    [status |-> status, keys |-> keys, success |-> success, error |-> error,
     message |-> message]

PRINTED_TO == <<"P", "r", "i", "n", "t", "e", "d", " ", "t", "o", " ">>

ShellOutcomes == {"ok", "nonzero", "run_raises", "tempfile_raises"}

\* The document branch on Windows: a temporary file and Start-Process -Verb Print,
\* whose return code is not looked at.
print_pdf_shell(data_bytes, outcome) ==
    LET create(ok) == OsCall("NamedTemporaryFile", TEMP_PDF, <<>>, ok)
        write == OsCall("write", TEMP_PDF, data_bytes, TRUE)
        shell(ok) == OsCall("powershell", TEMP_PDF, <<>>, ok)
    IN CASE outcome = "tempfile_raises" ->
              Raised("NamedTemporaryFile", <<create(FALSE)>>)
         [] outcome = "run_raises" ->
              Raised("powershell", <<create(TRUE), write, shell(FALSE)>>)
         [] OTHER ->
              Returned(<<create(TRUE), write, shell(TRUE)>>)

\* The texts of the errors a failed job answers with: handle_print puts str(e)
\* in the body, e being the exception the failing step raised.
S_lp_command_failed == <<"l", "p", " ", "c", "o", "m", "m", "a", "n", "d", " ", "f", "a", "i", "l", "e", "d">>
S_lp_stderr == <<"l", "p", ":", " ", "E", "r", "r", "o", "r">>
S_os_error == <<"O", "S", "E", "r", "r", "o", "r">>

\* str(e) for the error the model names: the RuntimeError of _print_raw_cups
\* carries result.stderr, or 'lp command failed' when that is empty; any other
\* exception is the one the OS or the library raised, with its own message.
ErrorText(error) ==
    CASE error = "lp command failed" -> S_lp_command_failed
      [] error = "lp: stderr" -> S_lp_stderr
      [] OTHER -> S_os_error

\* The route taking every kind that begins with 'pdf' for a document.
RouteByPrefix(raw_type) ==
    IF raw_type \in {S_image, S_image_cut} THEN "image"
    ELSE IF Len(raw_type) >= 3 /\ SubSeq(raw_type, 1, 3) = S_pdf THEN "pdf"
    ELSE "raw"

\* The route handle_print takes for a raw_type.
Route(raw_type) ==
    IF raw_type \in {S_image, S_image_cut} THEN "image"
    ELSE IF raw_type = S_pdf THEN "pdf"
    ELSE "raw"

\* The cut decision with 'and' in the place of 'or'.
ApplyCutBoth(auto_cut, raw_type) == auto_cut /\ EndsWith(raw_type, S_cut)

\* The cut decision of handle_print.
ApplyCut(auto_cut, raw_type) == auto_cut \/ EndsWith(raw_type, S_cut)

\* The dispatch step handing the cut decision to the spooler on the document
\* path as well.
DispatchDocumentCut(plat, printer_name, raw_type, data_bytes, apply_cut, os) ==
    CASE Route(raw_type) = "image" ->
           print_image(plat, printer_name, data_bytes, apply_cut, os)
      [] Route(raw_type) = "pdf" ->
           IF plat.SYSTEM = "Windows"
           THEN print_pdf_shell(data_bytes, os.shell)
           ELSE print_raw(plat, printer_name, data_bytes, apply_cut, os)
      [] OTHER ->
           print_raw(plat, printer_name, data_bytes, apply_cut, os)

\* The dispatch step of handle_print for a validated, decoded job.
Dispatch(plat, printer_name, raw_type, data_bytes, apply_cut, os) ==
    CASE Route(raw_type) = "image" ->
           print_image(plat, printer_name, data_bytes, apply_cut, os)
      [] Route(raw_type) = "pdf" ->
           IF plat.SYSTEM = "Windows"
           THEN print_pdf_shell(data_bytes, os.shell)
           ELSE print_raw(plat, printer_name, data_bytes, FALSE, os)
      [] OTHER ->
           print_raw(plat, printer_name, data_bytes, apply_cut, os)

\* handle_print(): [response, log] for the request req under the configuration cfg.
handle_print(plat, cfg, req, os) ==
    IF req.json # "object"
    THEN [response |-> Response(500, {"success", "error"}, FALSE,
                                "object has no attribute 'get'", <<>>),
          log |-> <<>>]
    ELSE
    LET payload == req.payload
        printer_name == Get(payload, "printer_name", None)
        raw_type == Get(payload, "raw_type", S_text)
        raw_data == Get(payload, "raw_data", <<>>)
    IN IF ~Truthy(printer_name)
       THEN [response |-> Response(400, {"error"}, FALSE, "Missing printer_name", <<>>),
             log |-> <<>>]
       ELSE IF ~Truthy(raw_data)
       THEN [response |-> Response(400, {"error"}, FALSE, "Missing raw_data", <<>>),
             log |-> <<>>]
       ELSE
       LET decoded == b64decode(raw_data) IN
       IF ~decoded.ok
       THEN [response |-> Response(500, {"success", "error"}, FALSE, decoded.error, <<>>),
             log |-> <<>>]
       ELSE
       LET data_bytes == decoded.bytes
           auto_cut == cfg.enable_auto_cut
           apply_cut == ApplyCut(auto_cut, raw_type)
           done == Dispatch(plat, printer_name, raw_type, data_bytes, apply_cut, os)
       IN IF done.ok
          THEN [response |-> Response(200, {"success", "message"}, TRUE, "",
                                      PRINTED_TO \o printer_name),
                log |-> done.log]
          ELSE [response |-> Response(500, {"success", "error"}, FALSE, done.error, <<>>),
                log |-> done.log]


(***************************************************************************)
(* Configuration                                                           *)
(***************************************************************************)

DEFAULT_SETTINGS ==
    [port |-> 5000, enable_auto_cut |-> FALSE, start_minimized |-> FALSE,
     log_level |-> "INFO"]

\* Configuration.set(key, value) followed by its save(): the whole settings are
\* dumped to CONFIG_PATH; a failing write is logged and leaves the file as it was.
config_set(cfg, key, value, disk_ok) ==
    LET st == [cfg.settings EXCEPT ![key] = value]
    IN [settings |-> st, file |-> IF disk_ok THEN <<st>> ELSE cfg.file]

\* PreferencesWindow._save with a valid port: three set calls in a row.
preferences_save(cfg, auto_cut, port, minimized, disk_ok) ==
    LET c1 == config_set(cfg, "enable_auto_cut", auto_cut, disk_ok)
        c2 == config_set(c1, "port", port, disk_ok)
    IN config_set(c2, "start_minimized", minimized, disk_ok)

(***************************************************************************)
(* CertificateManager                                                      *)
(***************************************************************************)

CERT_PATH == "server.crt"
KEY_PATH == "server.key"

GenerateEnvs ==
    [cryptography : BOOLEAN, openssl_ok : BOOLEAN,
     fail_at : {"none", "cert_write", "key_write"}]

\* generate writing only the file that is absent.
generate_missing_only(files, n, env) ==
    IF files.cert # 0 /\ files.key # 0
    THEN [result |-> "existing", cert_path |-> CERT_PATH, key_path |-> KEY_PATH,
          cert |-> files.cert, key |-> files.key]
    ELSE IF (env.cryptography /\ env.fail_at = "none")
            \/ (~env.cryptography /\ env.openssl_ok)
    THEN [result |-> "generated", cert_path |-> CERT_PATH, key_path |-> KEY_PATH,
          cert |-> IF files.cert = 0 THEN n ELSE files.cert,
          key |-> IF files.key = 0 THEN n ELSE files.key]
    ELSE [result |-> "raised", cert_path |-> "", key_path |-> "",
          cert |-> files.cert, key |-> files.key]

\* generate without the check that both files exist: it makes a new key pair
\* on every call.
generate_always(files, n, env) ==
    IF env.cryptography
    THEN CASE env.fail_at = "cert_write" ->
                [result |-> "raised", cert_path |-> "", key_path |-> "",
                 cert |-> files.cert, key |-> files.key]
           [] env.fail_at = "key_write" ->
                [result |-> "raised", cert_path |-> "", key_path |-> "",
                 cert |-> n, key |-> files.key]
           [] OTHER ->
                [result |-> "generated", cert_path |-> CERT_PATH, key_path |-> KEY_PATH,
                 cert |-> n, key |-> n]
    ELSE IF env.openssl_ok
         THEN [result |-> "generated", cert_path |-> CERT_PATH, key_path |-> KEY_PATH,
               cert |-> n, key |-> n]
         ELSE [result |-> "raised", cert_path |-> "", key_path |-> "",
               cert |-> files.cert, key |-> files.key]

\* CertificateManager.generate() on the files [cert, key] (0 = absent), n the number
\* of the key pair it would create: the files afterwards and what it returns.
generate(files, n, env) ==
    IF files.cert # 0 /\ files.key # 0
    THEN [result |-> "existing", cert_path |-> CERT_PATH, key_path |-> KEY_PATH,
          cert |-> files.cert, key |-> files.key]
    ELSE IF env.cryptography
    THEN CASE env.fail_at = "cert_write" ->
                [result |-> "raised", cert_path |-> "", key_path |-> "",
                 cert |-> files.cert, key |-> files.key]
           [] env.fail_at = "key_write" ->
                [result |-> "raised", cert_path |-> "", key_path |-> "",
                 cert |-> n, key |-> files.key]
           [] OTHER ->
                [result |-> "generated", cert_path |-> CERT_PATH, key_path |-> KEY_PATH,
                 cert |-> n, key |-> n]
    ELSE \* _generate_with_openssl
         IF env.openssl_ok
         THEN [result |-> "generated", cert_path |-> CERT_PATH, key_path |-> KEY_PATH,
               cert |-> n, key |-> n]
         ELSE [result |-> "raised", cert_path |-> "", key_path |-> "",
               cert |-> files.cert, key |-> files.key]


(***************************************************************************)
(* NetworkInfo.get_local_addresses and the certificate's alternative names *)
(* An address is a Python string.  What the three discovery sub-methods    *)
(* report is [byname, interfaces, route]: byname and route are <<>> when   *)
(* the call raises and <<address>> otherwise; interfaces is [ok, out], out *)
(* the lines (Windows) or words (hostname -I) of the command's output.     *)
(***************************************************************************)

\* str.startswith
StartsWith(s, prefix) ==
    /\ Len(s) >= Len(prefix)
    /\ SubSeq(s, 1, Len(prefix)) = prefix

S_127 == <<"1", "2", "7", ".">>
S_169_254 == <<"1", "6", "9", ".", "2", "5", "4", ".">>

\* The filter of the interface enumeration: the Windows branch drops 127.* and
\* 169.254.*, the other branch only 127.*.
InterfaceKept(system, ip) ==
    IF system = "Windows"
    THEN ip # <<>> /\ ~StartsWith(ip, S_127) /\ ~StartsWith(ip, S_169_254)
    ELSE ip # <<>> /\ ~StartsWith(ip, S_127)

\* NetworkInfo.get_local_addresses(): list(set(addresses)), as a set.
get_local_addresses(system, env) ==
    LET byname == {env.byname[i] : i \in 1..Len(env.byname)}
        interfaces == IF env.interfaces.ok
                      THEN {env.interfaces.out[i] :
                               i \in {j \in 1..Len(env.interfaces.out) :
                                         InterfaceKept(system, env.interfaces.out[j])}}
                      ELSE {}
        route == {env.route[i] : i \in 1..Len(env.route)}
    IN byname \cup interfaces \cup route

Digits == <<"0", "1", "2", "3", "4", "5", "6", "7", "8", "9">>

IsDigit(ch) == \E i \in 1..10 : Digits[i] = ch

DigitValue(ch) == (CHOOSE i \in 1..10 : Digits[i] = ch) - 1

\* s.split(sep) from character i on: cur is the field being read, acc the
\* fields read so far.
RECURSIVE SplitOn(_, _, _, _, _)
SplitOn(s, sep, i, cur, acc) ==
    IF i > Len(s) THEN Append(acc, cur)
    ELSE IF s[i] = sep THEN SplitOn(s, sep, i + 1, <<>>, Append(acc, cur))
    ELSE SplitOn(s, sep, i + 1, Append(cur, s[i]), acc)

\* An octet ipaddress.IPv4Address accepts: one to three decimal digits, at most
\* 255, no leading zero.
IsOctet(o) ==
    /\ Len(o) \in 1..3
    /\ \A i \in 1..Len(o) : IsDigit(o[i])
    /\ (Len(o) > 1 => o[1] # "0")
    /\ (Len(o) = 3 =>
           100 * DigitValue(o[1]) + 10 * DigitValue(o[2]) + DigitValue(o[3]) <= 255)

\* ipaddress.IPv4Address(ip) does not raise.
IsIPv4(ip) ==
    LET octets == SplitOn(ip, ".", 1, <<>>, <<>>)
    IN Len(octets) = 4 /\ \A i \in 1..4 : IsOctet(octets[i])

HexDigits == <<"0", "1", "2", "3", "4", "5", "6", "7", "8", "9", "a", "b", "c", "d", "e", "f", "A", "B", "C", "D", "E", "F">>

\* openssl's a2i_IPADDRESS takes a value with a colon for an IPv6 address:
\* groups of hexadecimal digits.
IsIPv6(ip) ==
    /\ \E i \in 1..Len(ip) : ip[i] = ":"
    /\ \A i \in 1..Len(ip) : ip[i] = ":" \/ \E k \in 1..22 : HexDigits[k] = ip[i]

S_localhost == <<"l", "o", "c", "a", "l", "h", "o", "s", "t">>
S_loopback == <<"1", "2", "7", ".", "0", ".", "0", ".", "1">>
HOSTNAME == <<"p", "c">>

AltName(kind, value) == [kind |-> kind, value |-> value]

\* The alt_names of CertificateManager.generate: the three fixed names and every
\* discovered address IPv4Address accepts; the others are passed over.
generate_alt_names(hostname, discovered) ==
    [ok |-> TRUE,
     san |-> {AltName("DNS", S_localhost), AltName("DNS", hostname),
              AltName("IP", S_loopback)}
             \cup {AltName("IP", ip) : ip \in {a \in discovered : IsIPv4(a)}}]

\* The -addext value of _generate_with_openssl, as the entries between its
\* commas: 'DNS:localhost,DNS:{hostname},IP:127.0.0.1,' followed by
\* ','.join('IP:' + ip), which is empty when nothing was discovered.
openssl_alt_entries(hostname, discovered) ==
    {AltName("DNS", S_localhost), AltName("DNS", hostname), AltName("IP", S_loopback)}
    \cup IF discovered = {} THEN {AltName("", <<>>)}
         ELSE {AltName("IP", ip) : ip \in discovered}

\* openssl req -addext: X509V3_parse_list refuses an empty entry, a2i_GENERAL_NAME
\* an IP value that is no address; subprocess.run(check=True) then raises.
openssl_alt_names(hostname, discovered) ==
    LET entries == openssl_alt_entries(hostname, discovered)
    IN IF \E e \in entries :
             \/ e.kind = ""
             \/ e.kind = "IP" /\ ~IsIPv4(e.value) /\ ~IsIPv6(e.value)
       THEN [ok |-> FALSE, san |-> {}]
       ELSE [ok |-> TRUE, san |-> entries]


(***************************************************************************)
(* PrinterManager.list_printers and the /status and /printers handlers.    *)
(* What the OS answers to an enumeration is [ok, out]: ok is FALSE when    *)
(* the call raises; out is the device names of EnumPrinters (Windows) or   *)
(* the lines of result.stdout.strip().split('\n') of lpstat -p.            *)
(***************************************************************************)

S_printer == <<"p", "r", "i", "n", "t", "e", "r">>

IsSpace(ch) == ch \in {" ", "\t"}

\* line.split() from character i on: cur is the word being read, acc the words
\* read so far; runs of whitespace separate words and give no empty word.
RECURSIVE SplitWords(_, _, _, _)
SplitWords(line, i, cur, acc) ==
    IF i > Len(line)
    THEN IF cur = <<>> THEN acc ELSE Append(acc, cur)
    ELSE IF IsSpace(line[i])
    THEN SplitWords(line, i + 1, <<>>, IF cur = <<>> THEN acc ELSE Append(acc, cur))
    ELSE SplitWords(line, i + 1, Append(cur, line[i]), acc)

\* The loop over the lpstat lines from line i on.
RECURSIVE LpstatNames(_, _, _)
LpstatNames(lines, i, printers) ==
    IF i > Len(lines) THEN printers
    ELSE LET parts == SplitWords(lines[i], 1, <<>>, <<>>)
         IN LpstatNames(lines, i + 1,
                        IF StartsWith(lines[i], S_printer) /\ Len(parts) >= 2
                        THEN Append(printers, parts[2])
                        ELSE printers)

\* The same loop appending parts[0] in the place of parts[1].
RECURSIVE LpstatNamesFirstWord(_, _, _)
LpstatNamesFirstWord(lines, i, printers) ==
    IF i > Len(lines) THEN printers
    ELSE LET parts == SplitWords(lines[i], 1, <<>>, <<>>)
         IN LpstatNamesFirstWord(lines, i + 1,
                        IF StartsWith(lines[i], S_printer) /\ Len(parts) >= 2
                        THEN Append(printers, parts[1])
                        ELSE printers)

\* list_printers with that loop.
list_printers_first_word(plat, os) ==
    IF plat.SYSTEM = "Windows" /\ plat.win32print
    THEN IF os.ok THEN os.out ELSE <<>>
    ELSE IF plat.SYSTEM \in {"Linux", "Darwin"}
    THEN IF os.ok THEN LpstatNamesFirstWord(os.out, 1, <<>>) ELSE <<>>
    ELSE <<>>

\* PrinterManager.list_printers(): the list it returns; an exception of the
\* enumeration is logged and leaves the list empty.
list_printers(plat, os) ==
    IF plat.SYSTEM = "Windows" /\ plat.win32print
    THEN IF os.ok THEN os.out ELSE <<>>
    ELSE IF plat.SYSTEM \in {"Linux", "Darwin"}
    THEN IF os.ok THEN LpstatNames(os.out, 1, <<>>) ELSE <<>>
    ELSE <<>>

\* status(): the body of the /status response.
status(plat, os) ==
    [status |-> 200, online |-> TRUE, printers |-> list_printers(plat, os),
     platform |-> plat.SYSTEM]

\* list_printers(): the body of the /printers response.
printers_route(plat, os) ==
    [status |-> 200, online |-> FALSE, printers |-> list_printers(plat, os),
     platform |-> ""]


(***************************************************************************)
(* Inputs                                                                  *)
(***************************************************************************)

Platforms ==
    {p \in [SYSTEM : {"Windows", "Linux", "Darwin", "Java"},
            win32print : BOOLEAN, Image : BOOLEAN] :
        p.win32print => p.SYSTEM = "Windows"}

Plat == [SYSTEM |-> SYSTEM, win32print |-> win32print, Image |-> Image]

S_text_cut == <<"t", "e", "x", "t", "_", "c", "u", "t">>
S_pdf_cut == <<"p", "d", "f", "_", "c", "u", "t">>
S_P1 == <<"P", "1">>

PrinterNameInputs == {Absent, <<>>, S_P1}
RawTypeInputs == {Absent, S_text, S_image, S_image_cut, S_pdf, S_text_cut, S_pdf_cut}

\* base64 of b'HELLO', of the three bytes of the cut command, then strings that
\* decode to no byte and strings b64decode refuses.
B64_HELLO == <<"S", "E", "V", "M", "T", "E", "8", "=">>
B64_CUT == <<"H", "V", "Y", "A">>
RawDataInputs ==
    {Absent, <<>>, B64_HELLO, B64_CUT, <<"=", "=", "=", "=">>, <<"!">>,
     <<"A">>, <<"Q", "Q">>}

Requests ==
    {[json |-> "null",
      payload |-> [printer_name |-> Absent, raw_type |-> Absent, raw_data |-> Absent]]}
    \cup
    {[json |-> "object", payload |-> p] :
        p \in {q \in [printer_name : PrinterNameInputs, raw_type : RawTypeInputs,
                      raw_data : RawDataInputs] :
                  \* an image job's body is an image file: what it decodes to is
                  \* Image.open's answer, so one well-formed body stands for all
                  Route(Get(q, "raw_type", S_text)) = "image"
                      => q.raw_data \in {Absent, <<>>, B64_HELLO, <<"A">>}}}

\* The images Image.open yields for the image jobs: mode 'L', luminance tiles.
RequestImages ==
    {NewImage(1, 1, <<0>>), NewImage(1, 1, <<127>>), NewImage(1, 1, <<128>>),
     NewImage(1, 1, <<255>>), NewImage(9, 2, <<0, 255>>), NewImage(576, 1, <<0, 255>>),
     NewImage(577, 1, <<0>>), NewImage(600, 2, <<0, 255>>), NewImage(9024, 47, <<0>>),
     NewImage(1, 65536, <<0>>), NewImage(600, 68271, <<255>>)}

ResampledTiles == {<<BLACK>>, <<BLACK, WHITE>>}

NoImage == NewImage(0, 0, <<>>)

WinFailInputs ==
    {{}} \cup {{c} : c \in WinCalls}
    \cup {{"WritePrinter", "EndDocPrinter"}, {"WritePrinter", "ClosePrinter"},
          {"EndDocPrinter", "ClosePrinter"}}

\* The request passes validation and decoding and reaches the dispatch step.
Dispatched(req) ==
    /\ req.json = "object"
    /\ Truthy(Get(req.payload, "printer_name", None))
    /\ Truthy(Get(req.payload, "raw_data", <<>>))
    /\ b64decode(Get(req.payload, "raw_data", <<>>)).ok

\* The answers of the OS that the handling of req on plat can depend on.
OsAnswersFor(plat, req) ==
    LET route == Route(Get(req.payload, "raw_type", S_text))
        live == Dispatched(req)
        imaging == live /\ route = "image" /\ plat.Image
        shelling == live /\ route = "pdf" /\ plat.SYSTEM = "Windows"
        spooling == live /\ ~shelling /\ (route = "image" => plat.Image)
        images == IF imaging
                  THEN {[valid |-> FALSE, image |-> NoImage, resampled |-> <<WHITE>>]}
                       \cup {[valid |-> TRUE, image |-> i, resampled |-> <<WHITE>>] :
                                i \in {j \in RequestImages : j.width <= max_width}}
                       \cup {[valid |-> TRUE, image |-> i, resampled |-> t] :
                                i \in {j \in RequestImages : j.width > max_width},
                                t \in ResampledTiles}
                  ELSE {[valid |-> FALSE, image |-> NoImage, resampled |-> <<WHITE>>]}
    IN {[imageValid |-> im.valid, image |-> im.image, resampled |-> im.resampled,
         winFails |-> wf, cups |-> cu, shell |-> sh] :
           im \in images,
           wf \in IF spooling /\ plat.SYSTEM = "Windows" /\ plat.win32print
                  THEN WinFailInputs ELSE {{}},
           cu \in IF spooling /\ plat.SYSTEM \in {"Linux", "Darwin"}
                  THEN CupsOutcomes ELSE {"ok"},
           sh \in IF shelling THEN ShellOutcomes ELSE {"ok"}}

(***************************************************************************)
(* The service                                                             *)
(***************************************************************************)

\* No address discovery was made and no worker thread runs.
NoNetEnv == [byname |-> <<>>, interfaces |-> [ok |-> FALSE, out |-> <<>>], route |-> <<>>]
NoPrinters == [ok |-> FALSE, out |-> <<>>]

NetIdle ==
    /\ netEnv = NoNetEnv
    /\ addresses = <<>>
    /\ sanOut = <<>>

WorkersIdle ==
    /\ workers = <<>>
    /\ osPrinters = NoPrinters

MaxGenerations == 2
MaxCalls == 3

Init ==
    /\ \E p \in Platforms :
          /\ SYSTEM = p.SYSTEM
          /\ win32print = p.win32print
          /\ Image = p.Image
    /\ settings = DEFAULT_SETTINGS
    /\ configFile = <<>>
    /\ certFile = 0
    /\ keyFile = 0
    /\ generations = 0
    /\ lastGenerate = [result |-> "none", cert_path |-> "", key_path |-> "", calls |-> 0]
    /\ phase = "stopped"
    /\ request = <<>>
    /\ responses = <<>>
    /\ osAnswers = <<>>
    /\ osLog = <<>>
    /\ rasterImg = NoImage
    /\ rasterOut = <<>>
    /\ NetIdle
    /\ WorkersIdle

\* One call of CertificateManager.generate().
GenerateCall(env, then) ==
    LET n == generations + 1
        g == generate([cert |-> certFile, key |-> keyFile], n, env)
    IN /\ lastGenerate.calls < MaxCalls
       /\ (g.result # "existing") => generations < MaxGenerations
       /\ certFile' = g.cert
       /\ keyFile' = g.key
       /\ generations' = IF g.result = "existing" THEN generations ELSE n
       /\ lastGenerate' = [result |-> g.result, cert_path |-> g.cert_path,
                           key_path |-> g.key_path, calls |-> lastGenerate.calls + 1]
       /\ phase' = then[g.result]

\* CertificateManager.generate() called on its own.
Generate ==
    /\ phase = "stopped"
    /\ \E env \in GenerateEnvs :
          GenerateCall(env, [r \in {"existing", "generated", "raised"} |-> phase])
    /\ UNCHANGED <<platformVars, configVars, jobVars, rasterVars,
                   netVars, workerVars>>

\* run_server going on to app.run whatever generate did.
RunServerUnchecked ==
    /\ phase = "stopped"
    /\ \E env \in GenerateEnvs, listen_ok \in BOOLEAN :
          GenerateCall(env, [r \in {"existing", "generated", "raised"} |->
                                IF ~listen_ok THEN "failed" ELSE "listening"])
    /\ UNCHANGED <<platformVars, configVars, jobVars, rasterVars,
                   netVars, workerVars>>

\* run_server(): generate the certificate, then app.run opens the listener.
RunServer ==
    /\ phase = "stopped"
    /\ \E env \in GenerateEnvs, listen_ok \in BOOLEAN :
          GenerateCall(env, [r \in {"existing", "generated", "raised"} |->
                                IF r = "raised" \/ ~listen_ok
                                THEN "failed" ELSE "listening"])
    /\ UNCHANGED <<platformVars, configVars, jobVars, rasterVars,
                   netVars, workerVars>>

\* The certificate or the key file is deleted from the data directory.
DeleteFile ==
    /\ phase = "stopped"
    /\ \/ certFile # 0 /\ certFile' = 0 /\ keyFile' = keyFile
       \/ keyFile # 0 /\ keyFile' = 0 /\ certFile' = certFile
    /\ UNCHANGED <<platformVars, configVars, generations, lastGenerate, phase,
                   jobVars, rasterVars,
                   netVars, workerVars>>

\* The preferences dialog is saved with the auto-cut box set to auto_cut.
PreferencesSave ==
    /\ \E auto_cut \in BOOLEAN, disk_ok \in BOOLEAN :
          LET c == preferences_save([settings |-> settings, file |-> configFile],
                                    auto_cut, settings.port, settings.start_minimized,
                                    disk_ok)
          IN /\ settings' = c.settings
             /\ configFile' = c.file
    /\ UNCHANGED <<platformVars, certVars, phase, jobVars, rasterVars,
                   netVars, workerVars>>

\* A client posts a request to /print_raw.
Receive ==
    /\ phase = "listening"
    /\ request = <<>>
    /\ \E req \in Requests : request' = <<req>>
    /\ responses' = <<>>
    /\ osAnswers' = <<>>
    /\ osLog' = <<>>
    /\ UNCHANGED <<platformVars, configVars, certVars, phase, rasterVars,
                   netVars, workerVars>>

\* handle_print runs for the request in flight.
HandlePrint ==
    /\ request # <<>>
    /\ responses = <<>>
    /\ \E os \in OsAnswersFor(Plat, request[1]) :
          LET r == handle_print(Plat, settings, request[1], os)
          IN /\ responses' = Append(responses, r.response)
             /\ osLog' = r.log
             /\ osAnswers' = <<os>>
    /\ UNCHANGED <<platformVars, configVars, certVars, phase, request, rasterVars,
                   netVars, workerVars>>

\* The response is sent and the worker is done.
Deliver ==
    /\ responses # <<>>
    /\ request' = <<>>
    /\ responses' = <<>>
    /\ osAnswers' = <<>>
    /\ osLog' = <<>>
    /\ UNCHANGED <<platformVars, configVars, certVars, phase, rasterVars,
                   netVars, workerVars>>

Next ==
    \/ RunServer
    \/ PreferencesSave
    \/ Receive
    \/ HandlePrint
    \/ Deliver

Spec == Init /\ [][Next]_vars

\* The certificate lifecycle on its own: generate, run_server and file deletions.
NextCert ==
    \/ Generate
    \/ RunServer
    \/ DeleteFile

SpecCert == Init /\ [][NextCert]_vars


(***************************************************************************)
(* _image_to_raster on its own, applied to every mode-'1' image of the     *)
(* bounded sizes and to the sizes at which a header byte rolls over.       *)
(***************************************************************************)

MaxWidth == 9
MaxHeight == 2
MaxTile == 3

RECURSIVE TilesOfLength(_)
TilesOfLength(n) ==
    IF n = 0 THEN {<<>>}
    ELSE {Append(t, v) : t \in TilesOfLength(n - 1), v \in {BLACK, WHITE}}

MonoTiles == UNION {TilesOfLength(n) : n \in 1..MaxTile}

EdgeSizes ==
    {<<1, 255>>, <<1, 256>>, <<8, 257>>, <<2040, 1>>, <<2041, 1>>, <<2048, 2>>,
     <<0, 65535>>, <<1, 65536>>, <<0, 65536>>, <<524281, 0>>, <<524280, 0>>}

RasterImages ==
    {NewImage(w, h, t) : w \in 0..MaxWidth, h \in 0..MaxHeight, t \in MonoTiles}
    \cup {NewImage(wh[1], wh[2], t) : wh \in EdgeSizes, t \in {<<BLACK>>, <<WHITE, BLACK>>}}

InitRaster ==
    /\ SYSTEM = "Linux"
    /\ win32print = FALSE
    /\ Image = TRUE
    /\ settings = DEFAULT_SETTINGS
    /\ configFile = <<>>
    /\ certFile = 0
    /\ keyFile = 0
    /\ generations = 0
    /\ lastGenerate = [result |-> "none", cert_path |-> "", key_path |-> "", calls |-> 0]
    /\ phase = "stopped"
    /\ request = <<>>
    /\ responses = <<>>
    /\ osAnswers = <<>>
    /\ osLog = <<>>
    /\ rasterImg \in RasterImages
    /\ rasterOut = <<>>
    /\ NetIdle
    /\ WorkersIdle

\* PrinterManager._image_to_raster(rasterImg) is called.
Encode ==
    /\ rasterOut = <<>>
    /\ rasterOut' = <<image_to_raster(rasterImg)>>
    /\ UNCHANGED <<platformVars, configVars, certVars, phase, jobVars, rasterImg,
                   netVars, workerVars>>

NextRaster == Encode

SpecRaster == InitRaster /\ [][NextRaster]_vars


(***************************************************************************)
(* Address discovery and the alternative names on their own, for every     *)
(* combination of what the three sub-methods report.                       *)
(***************************************************************************)

A_HOSTS == <<"1", "2", "7", ".", "0", ".", "1", ".", "1">>
A_LAN == <<"1", "0", ".", "0", ".", "0", ".", "2">>
A_LINK == <<"1", "6", "9", ".", "2", "5", "4", ".", "1", ".", "5">>
A_V6 == <<"f", "e", "8", "0", ":", ":", "1">>
A_JUNK == <<"n", "/", "a">>

InterfaceWords == {S_loopback, A_LAN, A_LINK, A_V6, A_JUNK, <<>>}

NetEnvs ==
    {[byname |-> b, interfaces |-> i, route |-> r] :
        b \in {<<>>, <<A_HOSTS>>, <<A_LAN>>},
        i \in {[ok |-> FALSE, out |-> <<>>], [ok |-> TRUE, out |-> <<>>]}
              \cup {[ok |-> TRUE, out |-> <<w>>] : w \in InterfaceWords}
              \cup {[ok |-> TRUE, out |-> <<w, A_LAN>>] : w \in InterfaceWords},
        r \in {<<>>, <<A_LAN>>, <<A_LINK>>}}

InitNet ==
    /\ SYSTEM \in {"Windows", "Linux"}
    /\ win32print = FALSE
    /\ Image = FALSE
    /\ settings = DEFAULT_SETTINGS
    /\ configFile = <<>>
    /\ certFile = 0
    /\ keyFile = 0
    /\ generations = 0
    /\ lastGenerate = [result |-> "none", cert_path |-> "", key_path |-> "", calls |-> 0]
    /\ phase = "stopped"
    /\ request = <<>>
    /\ responses = <<>>
    /\ osAnswers = <<>>
    /\ osLog = <<>>
    /\ rasterImg = NoImage
    /\ rasterOut = <<>>
    /\ netEnv \in NetEnvs
    /\ addresses = <<>>
    /\ sanOut = <<>>
    /\ WorkersIdle

\* NetworkInfo.get_local_addresses() is called.
Discover ==
    /\ addresses = <<>>
    /\ addresses' = <<get_local_addresses(SYSTEM, netEnv)>>
    /\ UNCHANGED <<platformVars, configVars, certVars, phase, jobVars, rasterVars,
                   netEnv, sanOut, workerVars>>

\* CertificateManager.generate builds the alternative names itself.
AltNamesPrimary ==
    /\ sanOut = <<>>
    /\ sanOut' = <<[path |-> "cryptography",
                    names |-> generate_alt_names(HOSTNAME,
                                  get_local_addresses(SYSTEM, netEnv))]>>
    /\ UNCHANGED <<platformVars, configVars, certVars, phase, jobVars, rasterVars,
                   netEnv, addresses, workerVars>>

\* _generate_with_openssl hands them to the openssl command.
AltNamesOpenssl ==
    /\ sanOut = <<>>
    /\ sanOut' = <<[path |-> "openssl",
                    names |-> openssl_alt_names(HOSTNAME,
                                  get_local_addresses(SYSTEM, netEnv))]>>
    /\ UNCHANGED <<platformVars, configVars, certVars, phase, jobVars, rasterVars,
                   netEnv, addresses, workerVars>>

NextNet ==
    \/ Discover
    \/ AltNamesPrimary
    \/ AltNamesOpenssl

SpecNet == InitNet /\ [][NextNet]_vars


(***************************************************************************)
(* The listening service with its worker threads: app.run(threaded=True)   *)
(* hands every request to a thread of its own; the handlers share the      *)
(* global config, which they only read, and no queue and no lock.          *)
(***************************************************************************)

MaxWorkers == 2

Workers == 1..MaxWorkers

N_A == <<"A">>
N_B == <<"B", " ", "2">>
L_A == <<"p", "r", "i", "n", "t", "e", "r", " ", "A", " ", "o", "n">>
L_B == <<"p", "r", "i", "n", "t", "e", "r", "\t", "B">>
L_BARE == <<"p", "r", "i", "n", "t", "e", "r">>
L_NOTE == <<"\t", "R", "e", "a", "d", "y">>

\* What the OS can answer to an enumeration on the platform.
PrinterEnums ==
    {[ok |-> FALSE, out |-> <<>>], [ok |-> TRUE, out |-> <<>>]}
    \cup {[ok |-> TRUE, out |-> o] :
             o \in IF SYSTEM = "Windows"
                   THEN {<<N_B, N_A>>, <<N_A, N_B>>}
                   ELSE {<<L_B, L_A>>, <<L_A, L_NOTE, L_B>>, <<L_A, L_BARE>>}}

\* The /print_raw requests the workers are given.
WorkerRequests ==
    {r \in Requests :
        \/ r.json = "null"
        \/ /\ r.json = "object"
           /\ r.payload.printer_name = S_P1
           /\ r.payload.raw_type = S_text
           /\ r.payload.raw_data = B64_HELLO}

\* What the spooler answers to the jobs of the workers: it takes the job, or
\* WritePrinter raises, or lp ends non-zero without a message.
SpoolerAnswersFor(req) ==
    {os \in OsAnswersFor(Plat, req) :
        /\ os.winFails \in {{}, {"WritePrinter"}}
        /\ os.cups \in {"ok", "nonzero_silent"}}

\* A thread that is not running; auto_cut is what a print job read from the
\* configuration, log the OS interactions its dispatch made.
IdleWorker ==
    [pc |-> "idle", kind |-> "", req |-> <<>>, resp |-> <<>>, auto_cut |-> FALSE,
     log |-> <<>>]

\* The handling of req on the platform makes a spooler call.
Spools(req) ==
    /\ Dispatched(req)
    /\ \/ SYSTEM \in {"Linux", "Darwin"}
       \/ SYSTEM = "Windows" /\ win32print

\* The server listens, its certificate generated by run_server.
InitConc ==
    /\ \E p \in Platforms :
          /\ p.Image
          /\ SYSTEM = p.SYSTEM
          /\ win32print = p.win32print
          /\ Image = p.Image
    /\ settings = DEFAULT_SETTINGS
    /\ configFile = <<>>
    /\ certFile = 1
    /\ keyFile = 1
    /\ generations = 1
    /\ lastGenerate = [result |-> "generated", cert_path |-> CERT_PATH,
                       key_path |-> KEY_PATH, calls |-> 1]
    /\ phase = "listening"
    /\ request = <<>>
    /\ responses = <<>>
    /\ osAnswers = <<>>
    /\ osLog = <<>>
    /\ rasterImg = NoImage
    /\ rasterOut = <<>>
    /\ NetIdle
    /\ workers = [w \in Workers |-> IdleWorker]
    /\ osPrinters \in PrinterEnums

ConcFrame ==
    UNCHANGED <<platformVars, configVars, certVars, phase, jobVars, rasterVars,
                netVars>>

\* A request arrives and werkzeug starts a thread for it.
AcceptBy(w) ==
    /\ phase = "listening"
    /\ workers[w].pc = "idle"
    /\ \/ \E kind \in {"status", "printers"} :
             workers' = [workers EXCEPT ![w] =
                            [IdleWorker EXCEPT !.pc = "received", !.kind = kind]]
       \/ \E req \in WorkerRequests :
             workers' = [workers EXCEPT ![w] =
                            [IdleWorker EXCEPT !.pc = "received", !.kind = "print_raw",
                                               !.req = <<req>>]]
    /\ UNCHANGED osPrinters
    /\ ConcFrame

\* The same handler taking a lock that the spooler calls hold.
ServeByLocked(w) ==
    /\ workers[w].pc = "received"
    /\ workers[w].kind \in {"status", "printers"}
    /\ \A v \in Workers : workers[v].pc \notin {"spooling", "stalled"}
    /\ workers' = [workers EXCEPT ![w].pc = "responded",
                                  ![w].resp = <<IF workers[w].kind = "status"
                                                THEN status(Plat, osPrinters)
                                                ELSE printers_route(Plat, osPrinters)>>]
    /\ UNCHANGED osPrinters
    /\ ConcFrame

\* status() or list_printers() runs in the thread of worker w.
ServeBy(w) ==
    /\ workers[w].pc = "received"
    /\ workers[w].kind \in {"status", "printers"}
    /\ workers' = [workers EXCEPT ![w].pc = "responded",
                                  ![w].resp = <<IF workers[w].kind = "status"
                                                THEN status(Plat, osPrinters)
                                                ELSE printers_route(Plat, osPrinters)>>]
    /\ UNCHANGED osPrinters
    /\ ConcFrame

\* handle_print runs in the thread of worker w up to its spooler call, which
\* has no timeout: it will return ("spooling") or it hangs ("stalled"); a
\* request that makes no spooler call is answered at once.
EnterPrintBy(w) ==
    /\ workers[w].pc = "received"
    /\ workers[w].kind = "print_raw"
    /\ LET req == workers[w].req[1]
       IN IF Spools(req)
          THEN \E pc \in {"spooling", "stalled"} :
                  workers' = [workers EXCEPT ![w].pc = pc]
          ELSE \E os \in OsAnswersFor(Plat, req) :
                  workers' = [workers EXCEPT
                                 ![w].pc = "responded",
                                 ![w].resp = <<handle_print(Plat, settings, req,
                                                            os).response>>]
    /\ UNCHANGED osPrinters
    /\ ConcFrame

\* The spooler call of worker w returns or raises and handle_print answers.
SpoolerReturnsBy(w) ==
    /\ workers[w].pc = "spooling"
    /\ \E os \in SpoolerAnswersFor(workers[w].req[1]) :
          workers' = [workers EXCEPT
                         ![w].pc = "responded",
                         ![w].resp = <<handle_print(Plat, settings, workers[w].req[1],
                                                    os).response>>]
    /\ UNCHANGED osPrinters
    /\ ConcFrame

\* The response of worker w is sent and its thread ends.
FinishBy(w) ==
    /\ workers[w].pc = "responded"
    /\ workers' = [workers EXCEPT ![w] = IdleWorker]
    /\ UNCHANGED osPrinters
    /\ ConcFrame

Accept == \E w \in Workers : AcceptBy(w)
Serve == \E w \in Workers : ServeBy(w)
EnterPrint == \E w \in Workers : EnterPrintBy(w)
SpoolerReturns == \E w \in Workers : SpoolerReturnsBy(w)
Finish == \E w \in Workers : FinishBy(w)

\* A printer is added, removed or renamed, or the spooler service stops.
PrintersChange ==
    /\ \E e \in PrinterEnums \ {osPrinters} : osPrinters' = e
    /\ UNCHANGED workers
    /\ ConcFrame

NextConc ==
    \/ Accept
    \/ Serve
    \/ EnterPrint
    \/ SpoolerReturns
    \/ Finish
    \/ PrintersChange

SpecConc == InitConc /\ [][NextConc]_vars

\* The same service on the platforms that have a spooler to call, while the
\* printers of the OS stay as they are.
InitStall ==
    /\ InitConc
    /\ Spools(CHOOSE r \in WorkerRequests : r.json = "object")
    /\ osPrinters = [ok |-> TRUE, out |-> <<>>]

NextStall ==
    \/ Accept
    \/ Serve
    \/ EnterPrint
    \/ SpoolerReturns
    \/ Finish

\* The step of its handler that the thread of worker w can take, if any.
HandlerStepBy(w) == ServeBy(w) \/ EnterPrintBy(w) \/ SpoolerReturnsBy(w)

\* Every thread that can take a step of its handler takes it in the end; no
\* request has to arrive, and a stalled spooler call never returns.
SpecStall ==
    /\ InitStall
    /\ [][NextStall]_vars
    /\ \A w \in Workers : WF_vars(HandlerStepBy(w))


(***************************************************************************)
(* The print jobs of the worker threads while the preferences dialog, in   *)
(* the GUI thread, changes the configuration with Configuration.set.       *)
(* handle_print reads enable_auto_cut once, before the dispatch, and the   *)
(* dispatch works with that value; a set is one dict item assignment and   *)
(* one save, and a thread sees the item before or after the assignment.    *)
(***************************************************************************)

\* The /print_raw requests of these jobs.
JobRequests ==
    {r \in Requests :
        /\ r.json = "object"
        /\ \/ /\ r.payload.printer_name = S_P1
              /\ r.payload.raw_type \in {S_text, S_text_cut, S_pdf}
              /\ r.payload.raw_data = B64_HELLO
           \/ /\ r.payload.printer_name = Absent
              /\ r.payload.raw_type = S_text
              /\ r.payload.raw_data = B64_HELLO}

PortInputs == {5000, 8080, 65535}

\* The values the preferences dialog sets a key to.
SettingInputs ==
    [enable_auto_cut |-> BOOLEAN, port |-> PortInputs, start_minimized |-> BOOLEAN]

\* The listening service on Linux and on Windows with win32print.
InitPrefs ==
    /\ InitConc
    /\ SYSTEM = "Linux" \/ win32print
    /\ osPrinters = [ok |-> TRUE, out |-> <<>>]

\* A print job arrives and werkzeug starts a thread for it.
AcceptJobBy(w) ==
    /\ phase = "listening"
    /\ workers[w].pc = "idle"
    /\ \E req \in JobRequests :
          workers' = [workers EXCEPT ![w] =
                         [IdleWorker EXCEPT !.pc = "received", !.kind = "print_raw",
                                            !.req = <<req>>]]
    /\ UNCHANGED osPrinters
    /\ ConcFrame

\* handle_print of worker w runs through validation and decoding and reads
\* enable_auto_cut once.
ReadFlagBy(w) ==
    /\ workers[w].pc = "received"
    /\ workers[w].kind = "print_raw"
    /\ Dispatched(workers[w].req[1])
    /\ workers' = [workers EXCEPT ![w].pc = "dispatching",
                                   ![w].auto_cut = settings.enable_auto_cut]
    /\ UNCHANGED osPrinters
    /\ ConcFrame

\* A job that validation or decoding stops is answered before the flag is
\* read; a job that got to the dispatch holds the flag value it read.
AtAnswer(w) ==
    \/ workers[w].pc = "dispatching"
    \/ /\ workers[w].pc = "received"
       /\ workers[w].kind = "print_raw"
       /\ ~Dispatched(workers[w].req[1])

\* The answer reading enable_auto_cut again when the dispatch runs.
AnswerByReread(w) ==
    /\ AtAnswer(w)
    /\ \E os \in SpoolerAnswersFor(workers[w].req[1]) :
          LET r == handle_print(Plat, settings, workers[w].req[1], os)
          IN workers' = [workers EXCEPT ![w].pc = "responded",
                                        ![w].resp = <<r.response>>,
                                        ![w].log = r.log]
    /\ UNCHANGED osPrinters
    /\ ConcFrame

\* handle_print of worker w runs to its answer: the rejection, or the dispatch
\* with the flag value the handler read.
AnswerBy(w) ==
    /\ AtAnswer(w)
    /\ \E os \in SpoolerAnswersFor(workers[w].req[1]) :
          LET r == handle_print(Plat,
                                [settings EXCEPT !.enable_auto_cut = workers[w].auto_cut],
                                workers[w].req[1], os)
          IN workers' = [workers EXCEPT ![w].pc = "responded",
                                        ![w].resp = <<r.response>>,
                                        ![w].log = r.log]
    /\ UNCHANGED osPrinters
    /\ ConcFrame

AcceptJob == \E w \in Workers : AcceptJobBy(w)
ReadFlag == \E w \in Workers : ReadFlagBy(w)
AnswerJob == \E w \in Workers : AnswerBy(w)

\* One config.set(key, value) of PreferencesWindow._save, for a key of keys;
\* the save it ends with may fail.
ConfigSetOf(keys) ==
    /\ \E key \in keys, disk_ok \in BOOLEAN :
          \E value \in SettingInputs[key] :
             LET c == config_set([settings |-> settings, file |-> configFile],
                                 key, value, disk_ok)
             IN /\ settings' = c.settings
                /\ configFile' = c.file
    /\ UNCHANGED <<platformVars, certVars, phase, jobVars, rasterVars, netVars,
                   workerVars>>

\* config.set('enable_auto_cut', ...), the first set of _save.
FlagSet == ConfigSetOf({"enable_auto_cut"})

\* Any of the three sets of _save.
ConfigSet == ConfigSetOf(DOMAIN SettingInputs)

NextPrefs ==
    \/ AcceptJob
    \/ ReadFlag
    \/ AnswerJob
    \/ Finish
    \/ FlagSet

SpecPrefs == InitPrefs /\ [][NextPrefs]_vars

\* The configuration on its own, changed by any sequence of set calls.
NextConfig == ConfigSet

SpecConfig == Init /\ [][NextConfig]_vars


(***************************************************************************)

(* Properties of the /print_raw pipeline                                   *)
(***************************************************************************)

\* The step in which handle_print answers the request in flight.
Handled == responses = <<>> /\ responses' # <<>>

\* handle_print has answered the request in flight.
Answered == request # <<>> /\ responses # <<>>

\* The fields of the request in flight, as handle_print reads them.
ReqPrinterName == Get(request[1].payload, "printer_name", None)
ReqRawType == Get(request[1].payload, "raw_type", S_text)
ReqRawData == Get(request[1].payload, "raw_data", <<>>)

\* The calls of a log that hand bytes to the spooler.
SpoolCalls(log) ==
    {log[i] : i \in {j \in 1..Len(log) : log[j].op \in {"lp", "WritePrinter"}}}

\* The calls of a log that carry bytes at all.
DataCalls(log) ==
    {log[i] : i \in {j \in 1..Len(log) :
                         log[j].op \in {"lp", "WritePrinter", "write"}}}

\* The cut rule: auto-cut is set or the raw_type ends with '_cut'.
CutDecided(auto_cut, raw_type) ==
    auto_cut \/ (Len(raw_type) >= 4 /\ SubSeq(raw_type, Len(raw_type) - 3, Len(raw_type))
                                          = <<"_", "c", "u", "t">>)

CutSuffix(cut) == IF cut THEN <<29, 86, 0>> ELSE <<>>

\* d is reset command + raster stream + the cut suffix of cut, and nothing more:
\* the raster stream is as long as its own header says.
RasterFramed(d, cut) ==
    /\ Len(d) >= 10
    /\ LET bw == d[7] + 256 * d[8]
           h == d[9] + 256 * d[10]
       IN /\ SubSeq(d, 1, 2) = <<27, 64>>
          /\ SubSeq(d, 3, 6) = <<29, 118, 48, 0>>
          /\ Len(d) = 10 + bw * h + Len(CutSuffix(cut))
          /\ SubSeq(d, 11 + bw * h, Len(d)) = CutSuffix(cut)

\* C1: for a job of raw_type 'image' or 'image_cut', every buffer handed to the
\* spooler is reset command + raster stream + (cut command iff the cut decision
\* is true): the cut command closes the buffer once when the decision is true
\* and is absent when it is false, never appended twice.
C1_ImageCutOnce ==
    [][(Handled /\ ReqRawType \in {S_image, S_image_cut})
         => \A c \in SpoolCalls(osLog') :
               RasterFramed(c.data, CutDecided(settings.enable_auto_cut, ReqRawType))]_vars

\* An image_cut job was spooled with the cut command at the end of its buffer.
C1_Witness ==
    /\ Answered
    /\ request[1].payload.raw_type = S_image_cut
    /\ responses[1].status = 200
    /\ \E c \in SpoolCalls(osLog) :
          /\ c.ok
          /\ Len(c.data) > 13
          /\ SubSeq(c.data, Len(c.data) - 2, Len(c.data)) = ESCPOS_CUT

\* The buffer the spooler is handed for a job is what its kind makes of the body,
\* followed by the cut command iff cut.
CutApplied(c, cut) ==
    IF ReqRawType \in {S_image, S_image_cut}
    THEN RasterFramed(c.data, cut)
    ELSE c.data = b64decode(ReqRawData).bytes \o CutSuffix(cut)

C3_TextBytesExact ==
    [][(/\ Handled
        /\ request[1].json = "object"
        /\ request[1].payload.raw_type \in {Absent, S_text}
        /\ ~settings.enable_auto_cut)
         => /\ \A c \in SpoolCalls(osLog') :
                  /\ c.data = b64decode(ReqRawData).bytes
                  /\ c.target = ReqPrinterName
                  /\ ReqRawData = B64_HELLO => c.data = <<72, 69, 76, 76, 79>>
            /\ responses'[1].status = 200 => SpoolCalls(osLog') # {}]_vars

\* A 'text' job of HELLO was spooled to P1 with auto-cut disabled.
C3_Witness ==
    /\ Answered
    /\ ~settings.enable_auto_cut
    /\ request[1].payload.raw_type = S_text
    /\ request[1].payload.raw_data = B64_HELLO
    /\ responses[1].status = 200
    /\ \E c \in SpoolCalls(osLog) :
          c.ok /\ c.target = S_P1 /\ c.data = <<72, 69, 76, 76, 79>>

C5_BadBase64Is400 ==
    (/\ Answered
     /\ request[1].json = "object"
     /\ request[1].payload.raw_data \notin {Absent, <<>>}
     /\ \/ ~b64decode(ReqRawData).ok
        \/ b64decode(ReqRawData).bytes = <<>>)
      => /\ responses[1].status = 400
         /\ osLog = <<>>

\* The dispatch step of the request in flight failed: an OS call raised, lp or the
\* shell print command exited with a non-zero status.
DispatchFailed ==
    \/ \E i \in 1..Len(osLog) : ~osLog[i].ok
    \/ \E i \in 1..Len(osLog) :
          /\ osLog[i].op = "lp"
          /\ osAnswers[1].cups \in {"nonzero_stderr", "nonzero_silent"}
    \/ \E i \in 1..Len(osLog) :
          /\ osLog[i].op = "powershell"
          /\ osAnswers[1].shell = "nonzero"

\* C6: every request gets exactly one response; a failed dispatch (spooling call
\* or document print invocation) is answered 500 with success=false and an
\* error, and 200 with success=true only answers a dispatch that did not fail,
\* on every routing path including the document path.
C6_DispatchFailureReported ==
    Answered
      => /\ Len(responses) = 1
         /\ DispatchFailed
              => /\ responses[1].status = 500
                 /\ ~responses[1].success
                 /\ "error" \in responses[1].keys
         /\ responses[1].status = 200
              => responses[1].success /\ ~DispatchFailed

(***************************************************************************)
(* Properties of the raster encoder                                        *)
(***************************************************************************)

\* ceil(w / 8)
ByteWidth(w) == IF w % 8 = 0 THEN w \div 8 ELSE (w \div 8) + 1

\* out is a raster stream for an image of width w and height h: the raster-mode
\* command, the four header bytes, bw * h body bytes.
RasterStreamOf(out, w, h) ==
    LET bw == ByteWidth(w)
    IN /\ out.ok
       /\ Len(out.bytes) = 8 + bw * h
       /\ SubSeq(out.bytes, 1, 8)
             = <<29, 118, 48, 0, bw % 256, bw \div 256, h % 256, h \div 256>>

\* C7 as stated: for every image of width w and height h (0 included) the raster
\* stream is the 4-byte raster-mode command, the header [bw mod 256, bw div 256,
\* h mod 256, h div 256] with bw = ceil(w/8), then a body of exactly bw * h bytes.
C7_RasterLayoutAll ==
    rasterOut # <<>>
      => RasterStreamOf(rasterOut[1], rasterImg.width, rasterImg.height)

\* C7 amended: the same for every image with h < 65536 and ceil(w/8) < 65536, the
\* sizes whose header values fit a byte each; w = 0 or h = 0 gives an empty body
\* and is not an error.
C7_RasterLayout ==
    (/\ rasterOut # <<>>
     /\ rasterImg.height < 65536
     /\ ByteWidth(rasterImg.width) < 65536)
      => /\ RasterStreamOf(rasterOut[1], rasterImg.width, rasterImg.height)
         /\ (rasterImg.width = 0 \/ rasterImg.height = 0)
               => Len(rasterOut[1].bytes) = 8

\* An image 8 wide and 257 high was encoded: both height bytes are 1, the body
\* has 257 one-byte rows.
C7_Witness ==
    /\ rasterOut # <<>>
    /\ rasterImg.width = 8
    /\ rasterImg.height = 257
    /\ rasterOut[1].ok
    /\ SubSeq(rasterOut[1].bytes, 5, 8) = <<1, 0, 1, 1>>
    /\ Len(rasterOut[1].bytes) = 8 + 257

\* Bit k (0 = least significant) of the byte b.
BitOf(b, k) == (b \div (2 ^ k)) % 2

\* C8: rows are emitted top to bottom, each byte packs 8 horizontal pixels most
\* significant bit first: bit (7 - x mod 8) of byte x div 8 of row y is set iff
\* x is below the unpadded width and pixel (x, y) is black, so padding bits are
\* 0; a 1x1 black image has the body byte 0x80, a 1x1 white image 0x00.
C8_BitPacking ==
    (rasterOut # <<>> /\ rasterOut[1].ok)
      => LET w == rasterImg.width
             h == rasterImg.height
             bw == ByteWidth(w)
             body == SubSeq(rasterOut[1].bytes, 9, Len(rasterOut[1].bytes))
         IN /\ \A y \in 0..(h - 1), x \in 0..(8 * bw - 1) :
                  BitOf(body[y * bw + (x \div 8) + 1], 7 - (x % 8))
                     = IF x < w /\ Pixel(rasterImg, x, y) = BLACK THEN 1 ELSE 0
            /\ (w = 1 /\ h = 1)
                  => body = IF Pixel(rasterImg, 0, 0) = BLACK THEN <<128>> ELSE <<0>>

\* A 9x2 image with black pixels in columns 2, 5 and 8 of both rows was encoded:
\* two bytes a row, 0x24 then 0x80, the seven padding bits clear.
C8_Witness ==
    /\ rasterOut # <<>>
    /\ rasterImg.width = 9
    /\ rasterImg.height = 2
    /\ rasterOut[1].ok
    /\ SubSeq(rasterOut[1].bytes, 9, 12) = <<36, 128, 36, 128>>

(***************************************************************************)
(* Properties of print_image's scaling                                     *)
(***************************************************************************)

\* C9: on the image path an image wider than 576 is encoded 576 wide with the
\* height floor(height * 576 / width), an image at most 576 wide at its own
\* width and height; the byte-width in the header never exceeds 72.
C9_DownscaleExact ==
    (Answered /\ ReqRawType \in {S_image, S_image_cut})
      => \A c \in SpoolCalls(osLog) :
            LET img == osAnswers[1].image
                bw == c.data[7] + 256 * c.data[8]
                h == c.data[9] + 256 * c.data[10]
            IN /\ bw <= 72
               /\ IF img.width > 576
                  THEN bw = 72 /\ h = (img.height * 576) \div img.width
                  ELSE bw = ByteWidth(img.width) /\ h = img.height

(***************************************************************************)
(* Properties of CertificateManager.generate                               *)
(***************************************************************************)

\* The step is a call of CertificateManager.generate().
GenerateCalled == lastGenerate'.calls = lastGenerate.calls + 1

\* C10: if both the certificate file and the key file exist, generate returns the
\* two fixed paths and writes to neither file; repeated calls without a deletion
\* in between return the same paths and leave the contents unchanged.
C10_GenerateIdempotent ==
    [][(GenerateCalled /\ certFile # 0 /\ keyFile # 0)
         => /\ lastGenerate'.cert_path = "server.crt"
            /\ lastGenerate'.key_path = "server.key"
            /\ certFile' = certFile
            /\ keyFile' = keyFile
            /\ generations' = generations]_vars

\* generate was called three times, created the pair once and twice found it
\* in place: the files still hold what the first call wrote.
C10_Witness ==
    /\ lastGenerate.calls = 3
    /\ generations = 1
    /\ lastGenerate.result = "existing"
    /\ lastGenerate.cert_path = CERT_PATH
    /\ certFile = 1
    /\ keyFile = 1

\* C23: a call of generate made while the certificate file or the key file is
\* absent, and returning, has written both: both files exist afterwards and
\* hold the key pair of this one generation, whatever was on disk before, a
\* certificate left behind by an interrupted generation included.
C23_AbsentRegeneratesBoth ==
    [][(GenerateCalled /\ (certFile = 0 \/ keyFile = 0)
          /\ lastGenerate'.result # "raised")
         => /\ lastGenerate'.result = "generated"
            /\ generations' = generations + 1
            /\ certFile' = generations'
            /\ keyFile' = generations'
            /\ lastGenerate'.cert_path = "server.crt"
            /\ lastGenerate'.key_path = "server.key"]_vars

\* The first generation wrote a certificate and no key; the second call has
\* returned the pair, both files of the second generation.
C23_Witness ==
    /\ lastGenerate.calls = 2
    /\ generations = 2
    /\ lastGenerate.result = "generated"
    /\ certFile = 2
    /\ keyFile = 2

(***************************************************************************)
(* Properties of address discovery and the alternative names               *)
(***************************************************************************)

\* C11: get_local_addresses never returns a loopback (127.*) or link-local
\* (169.254.*) address, on either platform family, whatever the three discovery
\* sub-methods report.
C11_NoLoopbackNoLinkLocal ==
    addresses # <<>>
      => \A a \in addresses[1] :
            /\ ~StartsWith(a, <<"1", "2", "7", ".">>)
            /\ ~StartsWith(a, <<"1", "6", "9", ".", "2", "5", "4", ".">>)

\* C12: whenever a certificate is generated, by the primary path or by the
\* command-line fallback, generation does not fail over the alternative names
\* and they contain 'localhost', the host name, '127.0.0.1' and every discovered
\* address that parses as IPv4, for any number of discovered addresses, zero
\* included; an address that does not parse is passed over.
C12_AltNamesComplete ==
    sanOut # <<>>
      => LET discovered == get_local_addresses(SYSTEM, netEnv)
             names == sanOut[1].names
         IN /\ names.ok
            /\ AltName("DNS", S_localhost) \in names.san
            /\ AltName("DNS", HOSTNAME) \in names.san
            /\ AltName("IP", S_loopback) \in names.san
            /\ \A a \in discovered : IsIPv4(a) => AltName("IP", a) \in names.san

(***************************************************************************)
(* Properties of the spooling primitives                                   *)
(***************************************************************************)

\* The native spooler calls in the order a job makes them.
WinOrder ==
    <<"OpenPrinter", "StartDocPrinter", "StartPagePrinter", "WritePrinter",
      "EndPagePrinter", "EndDocPrinter", "ClosePrinter">>

\* The native spooler calls of a log, in the order made.
WinOps(log) ==
    LET idx == {i \in 1..Len(log) : \E k \in 1..7 : WinOrder[k] = log[i].op}
        nth(n) == CHOOSE i \in idx : Cardinality({j \in idx : j <= i}) = n
    IN [n \in 1..Cardinality(idx) |-> log[nth(n)]]

\* How often op was called, and whether a call of it returned.
CountOp(calls, op) == Cardinality({i \in 1..Len(calls) : calls[i].op = op})
ReturnedOp(calls, op) == \E i \in 1..Len(calls) : calls[i].op = op /\ calls[i].ok

\* C13: the native spooler calls occur in the order open, start document, start
\* page, write, end page, end document, close; on every path the handle is
\* closed exactly once, as the last call, if the open succeeded and never
\* otherwise, and the document is ended exactly once if it was started and never
\* otherwise; a call is made only if the calls it follows returned.
C13_HandleReleased ==
    (Answered /\ SYSTEM = "Windows" /\ win32print)
      => LET calls == WinOps(osLog)
             pos(i) == CHOOSE k \in 1..7 : WinOrder[k] = calls[i].op
         IN /\ \A i \in 1..(Len(calls) - 1) : pos(i) < pos(i + 1)
            /\ CountOp(calls, "ClosePrinter")
                  = IF ReturnedOp(calls, "OpenPrinter") THEN 1 ELSE 0
            /\ CountOp(calls, "EndDocPrinter")
                  = IF ReturnedOp(calls, "StartDocPrinter") THEN 1 ELSE 0
            /\ ReturnedOp(calls, "OpenPrinter")
                  => calls[Len(calls)].op = "ClosePrinter"
            /\ \A op \in {"StartDocPrinter", "StartPagePrinter", "WritePrinter",
                          "EndPagePrinter"} :
                  CountOp(calls, op) = 1
                     <=> \A k \in 1..7 :
                            (k < (CHOOSE n \in 1..7 : WinOrder[n] = op))
                               => ReturnedOp(calls, WinOrder[k])
            /\ (calls # <<>> /\ \A i \in 1..Len(calls) : calls[i].ok)
                  => [i \in 1..Len(calls) |-> calls[i].op] = WinOrder

\* WritePrinter raised in the middle of a job: the document was still ended and
\* the handle closed, in that order.
C13_Witness ==
    /\ Answered
    /\ SYSTEM = "Windows"
    /\ responses[1].status = 500
    /\ [i \in 1..Len(osLog) |-> osLog[i].op]
          = <<"OpenPrinter", "StartDocPrinter", "StartPagePrinter", "WritePrinter",
              "EndDocPrinter", "ClosePrinter">>
    /\ ~osLog[4].ok

\* C14: in the queue-submission send the temporary file created for a job no
\* longer exists when the call returns or raises, whatever the outcome of the
\* submission: every temporary file created and written is unlinked before the
\* send is over (unless the OS refuses the unlink itself).
C14_TempFileRemoved ==
    Answered
      => \A i \in 1..Len(osLog) :
            (/\ osLog[i].op = "NamedTemporaryFile"
             /\ osLog[i].target = TEMP_RAW
             /\ osLog[i].ok
             /\ \E j \in 1..Len(osLog) : osLog[j].op = "write" /\ osLog[j].ok
             /\ ~\E j \in 1..Len(osLog) : osLog[j].op = "unlink" /\ ~osLog[j].ok)
              => \E j \in (i + 1)..Len(osLog) :
                    /\ osLog[j].op = "unlink"
                    /\ osLog[j].target = TEMP_RAW
                    /\ osLog[j].ok

(***************************************************************************)
(* Properties of startup                                                   *)
(***************************************************************************)

\* C15: the listener is opened only after certificate generation has returned
\* successfully; with the primary backend unavailable the command-line fallback
\* decides, and when generation raises run_server fails and the listener is
\* never opened; no request is received or answered before both identity files
\* exist.
C15_ListenAfterGenerate ==
    /\ phase = "listening"
         => /\ lastGenerate.result \in {"existing", "generated"}
            /\ certFile # 0
            /\ keyFile # 0
    /\ request # <<>>
         => /\ phase = "listening"
            /\ certFile # 0
            /\ keyFile # 0
    /\ lastGenerate.result = "raised" => phase # "listening" /\ request = <<>>
    /\ \A ok \in BOOLEAN, fail \in {"none", "cert_write", "key_write"} :
          generate([cert |-> 0, key |-> 0], 1,
                   [cryptography |-> FALSE, openssl_ok |-> ok, fail_at |-> fail]).result
             = IF ok THEN "generated" ELSE "raised"

\* A request was answered by a server that generated its certificate at startup.
C15_Witness ==
    /\ phase = "listening"
    /\ lastGenerate.result = "generated"
    /\ certFile = 1
    /\ keyFile = 1
    /\ Answered

\* The device named by one entry of the OS's answer: the entry itself for
\* EnumPrinters, the second word of a 'printer ...' line for lpstat -p.
DeviceOf(entry) ==
    IF SYSTEM = "Windows" THEN <<entry>>
    ELSE IF entry = L_A THEN <<N_A>>
    ELSE IF entry = L_B THEN <<<<"B">>>>
    ELSE <<>>

RECURSIVE DevicesReported(_, _)
DevicesReported(out, i) ==
    IF i > Len(out) THEN <<>> ELSE DeviceOf(out[i]) \o DevicesReported(out, i + 1)

\* C16: list_printers never raises, so /status and /printers always answer 200;
\* the list is empty when the enumeration fails, when there is no printer and on
\* a platform without enumeration, and otherwise holds the device names in the
\* order the OS reported them; it is the enumeration the OS gives at the moment
\* the request is handled, whatever earlier requests saw.
C16_PrintersEnumeratedPerRequest ==
    [][\A w \in Workers :
          (/\ workers[w].pc = "received"
           /\ workers[w].kind \in {"status", "printers"}
           /\ workers'[w].pc = "responded")
          => /\ workers'[w].resp[1].status = 200
             /\ workers'[w].resp[1].printers
                   = IF /\ osPrinters.ok
                        /\ \/ SYSTEM = "Windows" /\ win32print
                           \/ SYSTEM \in {"Linux", "Darwin"}
                     THEN DevicesReported(osPrinters.out, 1)
                     ELSE <<>>]_vars

\* Two requests answered from two enumerations: one saw the two devices in the
\* order of the lpstat lines, the other saw the enumeration fail.
C16_Witness ==
    /\ SYSTEM = "Linux"
    /\ \E w, v \in Workers :
          /\ workers[w].pc = "responded" /\ workers[w].kind = "printers"
          /\ workers[w].resp[1].printers = <<<<"A">>, <<"B">>>>
          /\ workers[v].pc = "responded" /\ workers[v].kind = "status"
          /\ workers[v].resp[1].printers = <<>>
          /\ ~osPrinters.ok

\* C17: no operation is retried: while one /print_raw request is handled no OS
\* operation is made a second time, so the spooler submission (or the document
\* print invocation) is attempted at most once whether it succeeds or fails; the
\* request gets one response, and once it is delivered nothing of the job is
\* kept for a later attempt.
C17_NoRetry ==
    /\ Answered
          => /\ \A i, j \in 1..Len(osLog) : i < j => osLog[i].op # osLog[j].op
             /\ Len(responses) = 1
    /\ request = <<>> => (osLog = <<>> /\ responses = <<>> /\ osAnswers = <<>>)

\* A submission that failed: lp was launched once, the job answered 500.
C17_Witness ==
    /\ Answered
    /\ responses[1].status = 500
    /\ Cardinality({i \in 1..Len(osLog) : osLog[i].op = "lp"}) = 1
    /\ \E i \in 1..Len(osLog) : osLog[i].op = "lp" /\ ~osLog[i].ok

\* C18: requests are handled independently and concurrently, without a shared
\* queue or lock: while the request of one worker is stalled inside its spooler
\* call, a request any other worker has received (/status, /printers or
\* /print_raw) is handled to its response, unless it is a print job whose own
\* spooler call stalls.
C18_StallBlocksOnlyItsRequest ==
    \A w \in Workers :
        (/\ workers[w].pc = "received"
         /\ \E v \in Workers \ {w} : workers[v].pc = "stalled")
           ~> (workers[w].pc \in {"responded", "stalled"})

\* One worker is stalled in its spooler call and another has answered a print
\* job meanwhile.
C18_Witness ==
    \E w, v \in Workers :
        /\ workers[v].pc = "stalled"
        /\ workers[w].pc = "responded"
        /\ workers[w].kind = "print_raw"
        /\ workers[w].resp[1].status = 200

\* The height print_image encodes the image of an image job at.
EncodedHeight(img) ==
    IF img.width > max_width THEN ScaledHeight(img.width, img.height) ELSE img.height

\* C19: an image whose height, after any downscale, is 65536 or more is never
\* encoded with a truncated or wrapped height: the job fails with a 500 and
\* nothing is handed to the spooler; and the height bytes of every raster
\* header that is handed to the spooler denote the real height.
C19_TallImageFails ==
    (/\ Answered
     /\ Dispatched(request[1])
     /\ Route(ReqRawType) = "image"
     /\ Image
     /\ osAnswers[1].imageValid)
      => LET h == EncodedHeight(osAnswers[1].image)
         IN /\ h >= 65536
                 => /\ responses[1].status = 500
                    /\ ~responses[1].success
                    /\ DataCalls(osLog) = {}
            /\ \A c \in SpoolCalls(osLog) :
                  /\ SubSeq(c.data, 1, 6) = <<27, 64, 29, 118, 48, 0>>
                  /\ c.data[9] + 256 * c.data[10] = h

\* An image 600 wide and 68271 high, 65540 high once scaled down to 576, was
\* submitted and the job failed.
C19_Witness ==
    /\ Answered
    /\ Dispatched(request[1])
    /\ Route(ReqRawType) = "image"
    /\ osAnswers[1].imageValid
    /\ osAnswers[1].image.height = 68271
    /\ EncodedHeight(osAnswers[1].image) = 65540
    /\ responses[1].status = 500

\* sub occurs in s.
Contains(s, sub) ==
    \E i \in 0..(Len(s) - Len(sub)) : SubSeq(s, i + 1, i + Len(sub)) = sub

\* The spooling primitive of the request in flight failed: one of its calls
\* raised or lp ended with a non-zero result.
SpoolingFailed ==
    /\ DispatchFailed
    /\ \A i \in 1..Len(osLog) : osLog[i].target # TEMP_PDF

\* The message of the failure underneath: of the last call that raised, or of the
\* non-zero result of lp.
UnderlyingMessage ==
    IF \E i \in 1..Len(osLog) : ~osLog[i].ok
    THEN S_os_error
    ELSE IF osAnswers[1].cups = "nonzero_stderr" THEN S_lp_stderr
    ELSE S_lp_command_failed

\* C20: when the spooling primitive fails, by a non-zero result of the submission
\* command or by an exception at any step, the request is answered 500 with an
\* error that carries both the name of the target device and the underlying
\* message.
C20_SpoolErrorNamesDevice ==
    (Answered /\ SpoolingFailed)
      => /\ responses[1].status = 500
         /\ "error" \in responses[1].keys
         /\ Contains(ErrorText(responses[1].error), UnderlyingMessage)
         /\ Contains(ErrorText(responses[1].error), ReqPrinterName)

\* The operations of a log, in order.
OpsOf(log) == [i \in 1..Len(log) |-> log[i].op]

JobRawType(w) == Get(workers[w].req[1].payload, "raw_type", S_text)
JobBytes(w) == b64decode(Get(workers[w].req[1].payload, "raw_data", Absent)).bytes

\* What a job of worker w transmits when the flag value it read is flag: a
\* document takes no cut, any other job the cut the rule gives for flag.
JobTransmits(w, flag) ==
    JobBytes(w) \o CutSuffix(IF JobRawType(w) = S_pdf
                             THEN FALSE
                             ELSE CutDecided(flag, JobRawType(w)))

C24_PersistedIsLastWrite ==
    [][(settings' # settings)
         => /\ configFile' = <<settings'>>
            /\ DOMAIN configFile'[1] = DOMAIN DEFAULT_SETTINGS]_vars

(***************************************************************************)
(* Properties of the routing of handle_print                               *)
(***************************************************************************)

\* The log shows the shell print invocation of the document path: the
\* temporary .pdf or the powershell call.
ShellPrint(log) ==
    \E i \in 1..Len(log) : log[i].op = "powershell" \/ log[i].target = TEMP_PDF

\* C25: every job that passes validation and decoding takes exactly one of
\* three paths, chosen by its raw_type alone.  'image' and 'image_cut' take
\* the image path: what is spooled is a raster stream.  'pdf' takes the
\* document path: the decoded bytes go to the shell print invocation or to
\* the spooler, without a cut.  Every other raw_type, absent, 'text',
\* 'text_cut' and 'pdf_cut' included, takes the raw path: the spooler gets the
\* decoded bytes followed by the cut command iff the cut decision is true, the
\* job is not refused as a bad request, and neither the imaging library nor
\* the shell is involved.
C25_RoutingTotalExclusive ==
    [][(Handled /\ Dispatched(request[1]))
         => LET bytes == b64decode(ReqRawData).bytes
                cut == CutDecided(settings.enable_auto_cut, ReqRawType)
                pillow == responses'[1].error = "Pillow library not available"
            IN /\ responses'[1].status \in {200, 500}
               /\ CASE ReqRawType \in {S_image, S_image_cut} ->
                         /\ ~ShellPrint(osLog')
                         /\ \A c \in SpoolCalls(osLog') : RasterFramed(c.data, cut)
                         /\ ~Image => pillow /\ osLog' = <<>>
                    [] ReqRawType = S_pdf ->
                         /\ ~pillow
                         /\ \A c \in DataCalls(osLog') : c.data = bytes
                         /\ SYSTEM = "Windows"
                               => ShellPrint(osLog') /\ SpoolCalls(osLog') = {}
                         /\ SYSTEM # "Windows" => ~ShellPrint(osLog')
                    [] OTHER ->
                         /\ ~pillow
                         /\ ~ShellPrint(osLog')
                         /\ \A c \in DataCalls(osLog') :
                               c.data = bytes \o CutSuffix(cut)
                         /\ \A c \in SpoolCalls(osLog') : c.target = ReqPrinterName
                         /\ responses'[1].status = 200 => SpoolCalls(osLog') # {}]_vars

\* A 'pdf_cut' job of HELLO was answered 200 with auto-cut disabled: the
\* spooler got HELLO followed by the cut command, addressed to P1.
C25_Witness ==
    /\ Answered
    /\ ~settings.enable_auto_cut
    /\ request[1].payload.raw_type = S_pdf_cut
    /\ request[1].payload.raw_data = B64_HELLO
    /\ responses[1].status = 200
    /\ \E c \in SpoolCalls(osLog) :
          c.ok /\ c.target = S_P1 /\ c.data = <<72, 69, 76, 76, 79, 29, 86, 0>>

==============================================================================
